---- MODULE Spec2Model ----
(***************************************************************************)
(* A model of the event-streaming side of scraps-cli:                      *)
(*   - the SSE stream client and the WebSocket client                      *)
(*     (src/internal/stream/client.go),                                    *)
(*   - the non-interactive watch loops runWatch (src/unnamed/part_008,     *)
(*     auto-reconnecting; src/unnamed/part_009, one connection),           *)
(*   - the interactive watch session watchModel (src/unnamed/part_008).    *)
(*                                                                         *)
(* Text is modelled as a sequence of tokens.  The token "data:" stands for *)
(* the five bytes of the SSE field prefix, " " for one white-space byte,   *)
(* and every other token for a run of bytes without white space; a token   *)
(* whose first byte is an opening brace is written with that brace.        *)
(***************************************************************************)
EXTENDS Integers, Sequences, FiniteSets, TLC

\* ------------------------------------------------------------------ bounds
\* Lines (SSE) or messages (WebSocket) the server sends on one connection.
MaxLines == 3
\* Calls of Close on one client.
MaxClose == 2
\* Connect attempts of one run of the watch command.
MaxAttempts == 3
\* Lines the server sends during one run of the watch command, over all its
\* connections.
MaxRecords == 3
\* Keys pressed during an interactive session.
MaxKeys == 2
\* Keys pressed during a session at the keyboard.
MaxFilterKeys == 4
\* Records handed to a session that processes events.
MaxProcessed == 2
\* Calls made on the credential store.
MaxCalls == 3
\* Steps of the wizard.
WizardSteps == 2
\* Messages handled by the wizard.
MaxMsgs == 4

\* ------------------------------------------------------------------ state
VARIABLES
  kind,          \* which client this is: "sse" or "ws"
  cpc,           \* the client: "new", "failed", "loop", "defer", "closedone", "exited"
  handlers,      \* the callbacks that are non-nil, of "OnMessage", "OnError", "OnClose"
  cancel,        \* sse: c.cancel is "nil", "set" or "called"
  conn,          \* ws: c.conn is "nil", "open" or "closed"
  closer,        \* ws: a caller of Close is "idle" or "waiting" (between the close frame and conn.Close)
  wire,          \* complete lines (sse) or messages (ws) sent by the server, not yet read
  ended,         \* how the server ended the connection: "open", "eof", "reset"
  tail,          \* bytes sent after the last line terminator (an unterminated line)
  dataBuffer,    \* readLoop's dataBuffer
  linesRead,     \* history: the lines ReadString has returned without error
  delivered,     \* history: the arguments of the OnMessage calls, in order
  onErrorCalls,  \* history: number of OnError calls
  onCloseCalls,  \* history: number of OnClose calls
  doneClosed,    \* c.done is closed
  closeCalls,    \* history: number of Close calls
  connectResult, \* what Connect returned: "none" (not called), "ok", or the error
  url            \* c.url

clientVars == <<kind, cpc, handlers, cancel, conn, closer, wire, ended, tail,
                dataBuffer, linesRead, delivered, onErrorCalls, onCloseCalls,
                doneClosed, closeCalls, connectResult, url>>

VARIABLES
  variant,       \* which runWatch this is: "reconnect" (part_008) or "oneshot" (part_009)
  wpc,           \* runWatch: "start", "top", "connect", "waitDone", "sleepFail", "sleepClose", "exited"
  branch,        \* the branch filter given on the command line ("" for none)
  path,          \* the path filter given on the command line ("" for none)
  streamURL,     \* runWatch's streamURL
  requests,      \* history: the URL and the result of every connect attempt, in order
  received,      \* history: the records given to runWatch's OnMessage callback, in order
  waits,         \* history: every time.Sleep of the reconnect loop, in order
  stdout,        \* history: what the run has printed for events ("recent" ones, then "live" ones)
  sentTotal,     \* history: number of lines the server has sent during the run
  exitCause      \* "none" while running; "interrupt", "error" (exit code 1) or "closed" (exit code 0)

watchVars == <<variant, wpc, branch, path, streamURL, requests, received,
               waits, stdout, sentTotal, exitCause>>

VARIABLES
  tpc,           \* the interactive session: "none", "init" (before Init), "running", "quit"
  cmds,          \* the commands the runtime has started and that have not returned
  inbox,         \* the messages commands have returned and Update has not been given yet
  streamClient,  \* watchModel.streamClient of the model the runtime passes to Update
  cmdClient,     \* watchModel.streamClient of the copy of the model Init's commands work on
  connected,     \* watchModel.connected
  err,           \* watchModel.err ("nil" or the error)
  events,        \* watchModel.events, newest first
  eventCount,    \* watchModel.eventCount
  ready,         \* watchModel.ready
  filter,        \* watchModel.filter
  filterInput,   \* the value of watchModel.filterInput
  filtering,     \* watchModel.filtering
  showClaims,    \* watchModel.showClaims
  viewport,      \* the content of watchModel.viewport, line by line
  keysTyped,     \* history: number of keys the user has pressed
  handoff,       \* history: the records readLoop took off the stream after Update handled streamConnectedMsg
  processed      \* history: every record processMessage was called with, and where it came from

tuiVars == <<tpc, cmds, inbox, streamClient, cmdClient, connected, err, events,
             eventCount, ready, filter, filterInput, filtering, showClaims,
             viewport, keysTyped, handoff, processed>>

VARIABLES
  command,       \* the coordination command that runs: "none", "claim" or "release"
  step,          \* "none", "start", "awaiting" (request sent), "responded", "done"
  refBranch,     \* the branch of the <store/repo:branch> argument ("" when it has none)
  patterns,      \* the pattern arguments
  agentID,       \* the agentID variable of the command: the --agent-id flag, then the effective id
  agentGiven,    \* history: whether --agent-id was given
  message,       \* the message variable of claim: the --message flag, then the effective description
  ttl,           \* the ttl variable of claim: the --ttl flag or its default
  ttlGiven,      \* history: whether --ttl was given
  outputFormat,  \* config.GetOutputFormat(): "text" or "json"
  sent,          \* history: the requests the command has sent, in order
  response,      \* what came back for the request (NoResponse before)
  out,           \* what the command has written to stdout and stderr, in order
  exitCode       \* -1 while the process runs, then its exit code

cliVars == <<command, step, refBranch, patterns, agentID, agentGiven, message,
             ttl, ttlGiven, outputFormat, sent, response, out, exitCode>>

VARIABLES
  credFile,      \* the credentials file: missing, a JSON document with its entries, or garbage
  lastSet,       \* history: for each host, the credential of the last successful set not removed since
  got,           \* history: the last call of GetCredential and what it returned
  lastCall,      \* history: the last call made and the host it was for
  credCalls      \* history: number of calls made

credVars == <<credFile, lastSet, got, lastCall, credCalls>>

VARIABLES
  currentStep,   \* WizardModel.currentStep
  wizDone,       \* WizardModel.done
  cancelled,     \* WizardModel.cancelled
  stepInput,     \* the value of each step's text input
  stepComplete,  \* each step's complete flag
  stepValue,     \* each step's value
  wizMsgs,       \* history: the messages Update has handled, in order
  wentBack       \* history: esc has taken the wizard a step back and no enter was pressed since

wizVars == <<currentStep, wizDone, cancelled, stepInput, stepComplete, stepValue,
             wizMsgs, wentBack>>

vars == <<clientVars, watchVars, tuiVars, cliVars, credVars, wizVars>>

\* ------------------------------------------------------------------ text
SP == " "
DATA == "data:"

\* The lines a server may send to the SSE client in the client-level runs.
Lines ==
  { <<>>,                        \* a blank line
    <<DATA, SP, "{a}", SP>>,     \* data: {a} followed by white space
    <<DATA>>,                    \* data: with an empty payload
    <<"{b}">>,                   \* a plain JSON line
    <<"x">> }                    \* any other line (a comment, an event: field)

\* What may follow the last line terminator when the stream ends.
Tails == { <<>>, <<DATA, "x">> }

\* The messages a server may send to the WebSocket client.
Messages == { <<"{a}">>, <<"{b}">>, <<"x">> }

RECURSIVE TrimLeft(_)
TrimLeft(s) ==
  IF s # <<>> /\ Head(s) = SP THEN TrimLeft(Tail(s)) ELSE s

RECURSIVE TrimRight(_)
TrimRight(s) ==
  IF s # <<>> /\ s[Len(s)] = SP THEN TrimRight(SubSeq(s, 1, Len(s) - 1)) ELSE s

TrimSpace(s) == TrimRight(TrimLeft(s))

HasPrefix(s, p) == s # <<>> /\ Head(s) = p

TrimPrefix(s, p) == IF HasPrefix(s, p) THEN Tail(s) ELSE s

\* file_chunk events: agent a1 streaming f.py at version 1 and then 2, and
\* agent a2 streaming f.py at version 1.
ChunkObjects == { "{file_chunk,a1,f.py,1}", "{file_chunk,a1,f.py,2}", "{file_chunk,a2,f.py,1}" }

\* Branch events, one of each type, with the fields branch, name and ref
\* present in different combinations; an absent field decodes as empty.
BranchEvents ==
  { [obj |-> "{branch:create,b,n,r}", type |-> "branch:create",
     branch |-> <<"b", "1">>, name |-> <<"n", "1">>, ref |-> <<"r", "1">>],
    [obj |-> "{branch:delete,n,r}", type |-> "branch:delete",
     branch |-> <<>>, name |-> <<"n", "2">>, ref |-> <<"r", "2">>],
    [obj |-> "{branch:update,b,r}", type |-> "branch:update",
     branch |-> <<"b", "3">>, name |-> <<>>, ref |-> <<"r", "3">>],
    [obj |-> "{ref:update,r}", type |-> "ref:update",
     branch |-> <<>>, name |-> <<>>, ref |-> <<"r", "4">>],
    [obj |-> "{ref:update,b,r}", type |-> "ref:update",
     branch |-> <<"b", "5">>, name |-> <<>>, ref |-> <<"r", "5">>],
    [obj |-> "{branch:update}", type |-> "branch:update",
     branch |-> <<>>, name |-> <<>>, ref |-> <<>>] }

BranchObjects == { e.obj : e \in BranchEvents }

BranchEventOf(obj) == CHOOSE e \in BranchEvents : e.obj = obj

\* A commit whose sha has fewer than 7 characters.
ShortCommit == "{commit,abc}"

\* A token that begins with an opening brace.
BraceTokens ==
  { "{a}", "{b}", "{commit}", "{future}", "{agent_claim}", "{oops", ShortCommit }
    \cup ChunkObjects \cup BranchObjects

HasBracePrefix(s) == s # <<>> /\ Head(s) \in BraceTokens

\* ------------------------------------------------------- the stream clients
AllHandlers == {"OnMessage", "OnError", "OnClose"}

\* What a connect attempt can meet: success, a transport error, or a status
\* other than 200.
ConnectOutcomes == {"ok", "refused", "401", "403", "500"}

\* NewClient (sse) / NewClient (ws): the fields of a fresh client of kind k
\* for the address u, with the callbacks h assigned by the caller.
NewClient(k, u, h) ==
  /\ kind' = k
  /\ url' = u
  /\ cpc' = "new"
  /\ handlers' = h
  /\ cancel' = "nil"
  /\ conn' = "nil"
  /\ closer' = "idle"
  /\ wire' = <<>>
  /\ ended' = "open"
  /\ tail' = <<>>
  /\ dataBuffer' = <<>>
  /\ linesRead' = <<>>
  /\ delivered' = <<>>
  /\ onErrorCalls' = 0
  /\ onCloseCalls' = 0
  /\ doneClosed' = FALSE
  /\ closeCalls' = 0
  /\ connectResult' = "none"

\* stream.Client.Connect: the context is made and c.cancel set before the
\* request; an error or a status other than 200 is returned, and only a 200
\* starts readLoop.
Connect(outcome) ==
  /\ kind = "sse"
  /\ cpc = "new"
  /\ cancel' = "set"
  /\ connectResult' = outcome
  /\ cpc' = IF outcome = "ok" THEN "loop" ELSE "failed"
  /\ UNCHANGED <<kind, handlers, conn, closer, wire, ended, tail, dataBuffer,
                 linesRead, delivered, onErrorCalls, onCloseCalls, doneClosed,
                 closeCalls, url>>

\* ws.Client.Connect: c.conn is set and readLoop started only when Dial succeeds.
ws_Connect(outcome) ==
  /\ kind = "ws"
  /\ cpc = "new"
  /\ connectResult' = outcome
  /\ conn' = IF outcome = "ok" THEN "open" ELSE conn
  /\ cpc' = IF outcome = "ok" THEN "loop" ELSE "failed"
  /\ UNCHANGED <<kind, handlers, cancel, closer, wire, ended, tail, dataBuffer,
                 linesRead, delivered, onErrorCalls, onCloseCalls, doneClosed,
                 closeCalls, url>>

\* The server writes one complete line (sse) or one message (ws).
ServerSend(l) ==
  /\ cpc = "loop"
  /\ ended = "open"
  /\ cancel # "called"
  /\ conn # "closed"
  /\ Len(linesRead) + Len(wire) < MaxLines
  /\ wire' = Append(wire, l)
  /\ UNCHANGED <<kind, cpc, handlers, cancel, conn, closer, ended, tail,
                 dataBuffer, linesRead, delivered, onErrorCalls, onCloseCalls,
                 doneClosed, closeCalls, connectResult, url, url>>

\* The server ends the connection, cleanly ("eof") or not ("reset"), having
\* written t after the last line terminator.
ServerEnd(how, t) ==
  /\ cpc = "loop"
  /\ ended = "open"
  /\ ended' = how
  /\ tail' = t
  /\ UNCHANGED <<kind, cpc, handlers, cancel, conn, closer, wire, dataBuffer,
                 linesRead, delivered, onErrorCalls, onCloseCalls, doneClosed,
                 closeCalls, connectResult, url>>

\* readLoopBody that passes the accumulated data on with every data: line,
\* before the blank line that ends the record.
readLoopBody_EmitOnData(raw, buf) ==
  LET line == TrimSpace(raw) IN
  IF line = <<>>
    THEN [buf |-> <<>>, msgs |-> <<>>]
    ELSE IF HasPrefix(line, DATA)
      THEN [buf |-> buf \o TrimSpace(TrimPrefix(line, DATA)),
            msgs |-> <<buf \o TrimSpace(TrimPrefix(line, DATA))>>]
      ELSE IF HasBracePrefix(line)
        THEN [buf |-> buf, msgs |-> <<line>>]
        ELSE [buf |-> buf, msgs |-> <<>>]

\* readLoopBody without dataBuffer.Reset() after the record is passed on.
readLoopBody_NoReset(raw, buf) ==
  LET line == TrimSpace(raw) IN
  IF line = <<>>
    THEN IF Len(buf) > 0
           THEN [buf |-> buf, msgs |-> <<buf>>]
           ELSE [buf |-> buf, msgs |-> <<>>]
    ELSE IF HasPrefix(line, DATA)
      THEN [buf |-> buf \o TrimSpace(TrimPrefix(line, DATA)), msgs |-> <<>>]
      ELSE IF HasBracePrefix(line)
        THEN [buf |-> buf, msgs |-> <<line>>]
        ELSE [buf |-> buf, msgs |-> <<>>]

\* The body of readLoop's for statement for a line that ReadString returned
\* without error: the new dataBuffer and the OnMessage arguments (none or one).
readLoopBody(raw, buf) ==
  LET line == TrimSpace(raw) IN
  IF line = <<>>
    THEN IF Len(buf) > 0
           THEN [buf |-> <<>>, msgs |-> <<buf>>]
           ELSE [buf |-> buf, msgs |-> <<>>]
    ELSE IF HasPrefix(line, DATA)
      THEN [buf |-> buf \o TrimSpace(TrimPrefix(line, DATA)), msgs |-> <<>>]
      ELSE IF HasBracePrefix(line)
        THEN [buf |-> buf, msgs |-> <<line>>]
        ELSE [buf |-> buf, msgs |-> <<>>]

\* The calls c.OnMessage receives: none when the callback is nil.
OnMessageCalls(msgs) == IF "OnMessage" \in handlers THEN msgs ELSE <<>>

\* readLoop, one iteration in which ReadString returns a complete line.  A
\* line already received can still be returned after the context is cancelled
\* or the server has gone (it sits in the reader's buffer).
readLoop_Line ==
  /\ kind = "sse"
  /\ cpc = "loop"
  /\ wire # <<>>
  /\ LET r == readLoopBody(Head(wire), dataBuffer) IN
       /\ dataBuffer' = r.buf
       /\ delivered' = delivered \o OnMessageCalls(r.msgs)
  /\ linesRead' = Append(linesRead, Head(wire))
  /\ wire' = Tail(wire)
  /\ UNCHANGED <<kind, cpc, handlers, cancel, conn, closer, ended, tail,
                 onErrorCalls, onCloseCalls, doneClosed, closeCalls, connectResult, url>>

\* The read error that ends the loop not reported to OnError.
ReportError_Skip(n) == n

\* The number of OnError calls after the read error was reported.
ReportError(n) == IF "OnError" \in handlers THEN n + 1 ELSE n

\* readLoop, the iteration in which ReadString returns an error: at the clean
\* end of the stream once every line is read, or at any time after a reset or
\* the cancellation of the context.  What was read of an unterminated line is
\* dropped with the error.
readLoop_Err ==
  /\ kind = "sse"
  /\ cpc = "loop"
  /\ \/ ended = "eof" /\ wire = <<>>
     \/ ended = "reset"
     \/ cancel = "called"
  /\ onErrorCalls' = ReportError(onErrorCalls)
  /\ cpc' = "defer"
  /\ UNCHANGED <<kind, handlers, cancel, conn, closer, wire, ended, tail,
                 dataBuffer, linesRead, delivered, onCloseCalls, doneClosed,
                 closeCalls, connectResult, url>>

\* OnClose called on the error path as well as in the deferred function.
DeferOnClose_Twice(n) == IF "OnClose" \in handlers THEN n + 2 ELSE n

\* The number of OnClose calls after readLoop's deferred function called it.
DeferOnClose(n) == IF "OnClose" \in handlers THEN n + 1 ELSE n

\* readLoop's deferred function, first part: resp.Body.Close() (sse) and
\* c.OnClose().
readLoop_DeferOnClose ==
  /\ cpc = "defer"
  /\ onCloseCalls' = DeferOnClose(onCloseCalls)
  /\ cpc' = "closedone"
  /\ UNCHANGED <<kind, handlers, cancel, conn, closer, wire, ended, tail,
                 dataBuffer, linesRead, delivered, onErrorCalls, doneClosed,
                 closeCalls, connectResult, url>>

\* readLoop's deferred function, second part: close(c.done).
readLoop_DeferCloseDone ==
  /\ cpc = "closedone"
  /\ doneClosed' = TRUE
  /\ cpc' = "exited"
  /\ UNCHANGED <<kind, handlers, cancel, conn, closer, wire, ended, tail,
                 dataBuffer, linesRead, delivered, onErrorCalls, onCloseCalls,
                 closeCalls, connectResult, url>>

\* stream.Client.Close: cancels the context if Connect has made one.
Close ==
  /\ kind = "sse"
  /\ closeCalls < MaxClose
  /\ closeCalls' = closeCalls + 1
  /\ cancel' = IF cancel = "nil" THEN "nil" ELSE "called"
  /\ UNCHANGED <<kind, cpc, handlers, conn, closer, wire, ended, tail,
                 dataBuffer, linesRead, delivered, onErrorCalls, onCloseCalls,
                 doneClosed, connectResult, url>>

\* ws readLoop, one iteration in which ReadMessage returns a message.
ws_readLoop_Message ==
  /\ kind = "ws"
  /\ cpc = "loop"
  /\ conn = "open"
  /\ wire # <<>>
  /\ delivered' = delivered \o OnMessageCalls(<<Head(wire)>>)
  /\ linesRead' = Append(linesRead, Head(wire))
  /\ wire' = Tail(wire)
  /\ UNCHANGED <<kind, cpc, handlers, cancel, conn, closer, ended, tail,
                 dataBuffer, onErrorCalls, onCloseCalls, doneClosed, closeCalls,
                 connectResult, url>>

\* ws readLoop, the iteration in which ReadMessage returns an error.  The
\* server's close frame gives a normal-closure error, which is not reported;
\* a reset, or a read on the connection Close has closed, is.
ws_readLoop_Err ==
  /\ kind = "ws"
  /\ cpc = "loop"
  /\ \/ /\ ended = "eof"
        /\ wire = <<>>
        /\ conn = "open"
        /\ onErrorCalls' = onErrorCalls
     \/ /\ \/ ended = "reset"
           \/ conn = "closed"
        /\ onErrorCalls' = ReportError(onErrorCalls)
  /\ cpc' = "defer"
  /\ UNCHANGED <<kind, handlers, cancel, conn, closer, wire, ended, tail,
                 dataBuffer, linesRead, delivered, onCloseCalls, doneClosed,
                 closeCalls, connectResult, url>>

\* ws.Client.Close up to its wait: nothing without a connection; otherwise
\* the close frame is written, and if that fails (the connection is closed
\* already) the connection is closed again and Close returns.
ws_Close_Begin ==
  /\ kind = "ws"
  /\ closer = "idle"
  /\ closeCalls < MaxClose
  /\ closeCalls' = closeCalls + 1
  /\ closer' = IF conn = "open" THEN "waiting" ELSE "idle"
  /\ UNCHANGED <<kind, cpc, handlers, cancel, conn, wire, ended, tail,
                 dataBuffer, linesRead, delivered, onErrorCalls, onCloseCalls,
                 doneClosed, connectResult, url>>

\* ws.Client.Close after its wait (c.done closed, or one second passed):
\* c.conn.Close().
ws_Close_Finish ==
  /\ kind = "ws"
  /\ closer = "waiting"
  /\ closer' = "idle"
  /\ conn' = "closed"
  /\ UNCHANGED <<kind, cpc, handlers, cancel, wire, ended, tail, dataBuffer,
                 linesRead, delivered, onErrorCalls, onCloseCalls, doneClosed,
                 closeCalls, connectResult, url>>

\* ------------------------------------------- the clients on their own
\* A caller that assigns the three callbacks, connects once and may call
\* Close at any time.
InitStream ==
  /\ kind \in {"sse", "ws"}
  /\ cpc = "new"
  /\ handlers = AllHandlers
  /\ cancel = "nil"
  /\ conn = "nil"
  /\ closer = "idle"
  /\ wire = <<>>
  /\ ended = "open"
  /\ tail = <<>>
  /\ dataBuffer = <<>>
  /\ linesRead = <<>>
  /\ delivered = <<>>
  /\ onErrorCalls = 0
  /\ onCloseCalls = 0
  /\ doneClosed = FALSE
  /\ closeCalls = 0
  /\ connectResult = "none"
  /\ url = <<>>

InitWatchIdle ==
  /\ variant = "none"
  /\ wpc = "none"
  /\ branch = ""
  /\ path = ""
  /\ streamURL = <<>>
  /\ requests = <<>>
  /\ received = <<>>
  /\ waits = <<>>
  /\ stdout = <<>>
  /\ sentTotal = 0
  /\ exitCause = "none"

\* No interactive session: the fields of a watchModel newWatchModel returns.
InitTuiIdle ==
  /\ tpc = "none"
  /\ cmds = {}
  /\ inbox = {}
  /\ streamClient = "nil"
  /\ cmdClient = "nil"
  /\ connected = FALSE
  /\ err = "nil"
  /\ events = <<>>
  /\ eventCount = 0
  /\ ready = FALSE
  /\ filter = <<>>
  /\ filterInput = <<>>
  /\ filtering = FALSE
  /\ showClaims = TRUE
  /\ viewport = <<>>
  /\ keysTyped = 0
  /\ handoff = <<>>
  /\ processed = <<>>

\* The response slot before any response.
NoResponse == [status |-> -1, body |-> "none"]

\* No coordination command runs.
InitCliIdle ==
  /\ command = "none"
  /\ step = "none"
  /\ refBranch = ""
  /\ patterns = <<>>
  /\ agentID = ""
  /\ agentGiven = FALSE
  /\ message = ""
  /\ ttl = 0
  /\ ttlGiven = FALSE
  /\ outputFormat = "text"
  /\ sent = <<>>
  /\ response = NoResponse
  /\ out = <<>>
  /\ exitCode = -1

\* The hosts of the credential store.
DefaultHost == "https://api.scraps.sh"

OtherHost == "https://scraps.example"

StoredHosts == {DefaultHost, OtherHost}

\* The zero Credential.
ZeroCredential == [APIKey |-> <<>>, UserID |-> <<>>, Username |-> <<>>]

\* No credential: what a lookup of a host without entry gives.
NoCredential == [found |-> FALSE, cred |-> ZeroCredential]

\* No credentials file on disk.
MissingFile == [state |-> "missing", entries |-> <<>>]

NotCalled == [called |-> FALSE, host |-> "", found |-> FALSE, cred |-> ZeroCredential, err |-> FALSE]

\* No call is made on the credential store.
InitCredIdle ==
  /\ credFile = MissingFile
  /\ lastSet = [h \in StoredHosts |-> NoCredential]
  /\ got = NotCalled
  /\ lastCall = [op |-> "none", host |-> ""]
  /\ credCalls = 0

\* NewWizard with text input steps: the first step, nothing typed.
InitWizIdle ==
  /\ currentStep = 0
  /\ wizDone = FALSE
  /\ cancelled = FALSE
  /\ stepInput = [i \in 0..(WizardSteps - 1) |-> <<>>]
  /\ stepComplete = [i \in 0..(WizardSteps - 1) |-> FALSE]
  /\ stepValue = [i \in 0..(WizardSteps - 1) |-> <<>>]
  /\ wizMsgs = <<>>
  /\ wentBack = FALSE

InitStreamOnly ==
  InitStream /\ InitWatchIdle /\ InitTuiIdle /\ InitCliIdle /\ InitCredIdle /\ InitWizIdle

NextStream ==
  \/ UNCHANGED <<watchVars, tuiVars, cliVars, credVars, wizVars>> /\ \E o \in ConnectOutcomes : Connect(o)
  \/ UNCHANGED <<watchVars, tuiVars, cliVars, credVars, wizVars>> /\ \E o \in {"ok", "refused"} : ws_Connect(o)
  \/ UNCHANGED <<watchVars, tuiVars, cliVars, credVars, wizVars>> /\ \E l \in Lines : kind = "sse" /\ ServerSend(l)
  \/ UNCHANGED <<watchVars, tuiVars, cliVars, credVars, wizVars>> /\ \E m \in Messages : kind = "ws" /\ ServerSend(m)
  \/ UNCHANGED <<watchVars, tuiVars, cliVars, credVars, wizVars>> /\ \E h \in {"eof", "reset"}, t \in Tails : kind = "sse" /\ ServerEnd(h, t)
  \/ UNCHANGED <<watchVars, tuiVars, cliVars, credVars, wizVars>> /\ \E h \in {"eof", "reset"} : kind = "ws" /\ ServerEnd(h, <<>>)
  \/ UNCHANGED <<watchVars, tuiVars, cliVars, credVars, wizVars>> /\ readLoop_Line
  \/ UNCHANGED <<watchVars, tuiVars, cliVars, credVars, wizVars>> /\ readLoop_Err
  \/ UNCHANGED <<watchVars, tuiVars, cliVars, credVars, wizVars>> /\ readLoop_DeferOnClose
  \/ UNCHANGED <<watchVars, tuiVars, cliVars, credVars, wizVars>> /\ readLoop_DeferCloseDone
  \/ UNCHANGED <<watchVars, tuiVars, cliVars, credVars, wizVars>> /\ Close
  \/ UNCHANGED <<watchVars, tuiVars, cliVars, credVars, wizVars>> /\ ws_readLoop_Message
  \/ UNCHANGED <<watchVars, tuiVars, cliVars, credVars, wizVars>> /\ ws_readLoop_Err
  \/ UNCHANGED <<watchVars, tuiVars, cliVars, credVars, wizVars>> /\ ws_Close_Begin
  \/ UNCHANGED <<watchVars, tuiVars, cliVars, credVars, wizVars>> /\ ws_Close_Finish

SpecStream == InitStreamOnly /\ [][NextStream]_vars

\* ------------------------------------------------ claims on the clients
\* C1: for both stream clients, after a Connect that returned success the
\* OnClose callback is invoked exactly once when the connection ends (clean
\* end of stream, read error, or Close): never while readLoop is still
\* reading, never more than once, and once readLoop has called it the count
\* stays 1 until and after c.done is closed.
C1_OnCloseExactlyOnce ==
  connectResult = "ok" =>
    /\ onCloseCalls <= 1
    /\ cpc \in {"loop", "defer"} => onCloseCalls = 0
    /\ cpc \in {"closedone", "exited"} => onCloseCalls = 1

\* C1 witness: a connection that was ended by Close, with readLoop returned.
C1_Witness_ClosedByClose ==
  /\ connectResult = "ok"
  /\ cpc = "exited"
  /\ closeCalls > 0
  /\ ended = "open"
  /\ onCloseCalls = 1

\* The payload of a data: line, as readLoop takes it.
Payload(line) == TrimSpace(TrimPrefix(TrimSpace(line), DATA))

IsBlank(line) == TrimSpace(line) = <<>>

IsData(line) == HasPrefix(TrimSpace(line), DATA)

IsPlainJSON(line) == ~IsData(line) /\ HasBracePrefix(TrimSpace(line))

\* The index of the last blank line before line i, 0 if there is none.
PrevBlank(lines, i) ==
  LET B == { j \in 1..(i - 1) : IsBlank(lines[j]) } IN
  IF B = {} THEN 0 ELSE CHOOSE j \in B : \A k \in B : k <= j

\* The concatenation of the payloads of the data: lines among lines[from..to].
RECURSIVE ConcatPayloads(_, _, _)
ConcatPayloads(lines, from, to) ==
  IF from > to THEN <<>>
  ELSE (IF IsData(lines[from]) THEN Payload(lines[from]) ELSE <<>>)
         \o ConcatPayloads(lines, from + 1, to)

\* The logical record that the blank line i terminates.
RecordAt(lines, i) == ConcatPayloads(lines, PrevBlank(lines, i) + 1, i - 1)

\* What line i gives to OnMessage: the record a blank line terminates, if it
\* is not empty; with plain, also a plain JSON line itself.
EmittedAt(lines, i, plain) ==
  IF IsBlank(lines[i])
    THEN IF RecordAt(lines, i) # <<>> THEN <<RecordAt(lines, i)>> ELSE <<>>
    ELSE IF plain /\ IsPlainJSON(lines[i]) THEN <<TrimSpace(lines[i])>> ELSE <<>>

RECURSIVE EmittedUpTo(_, _, _)
EmittedUpTo(lines, n, plain) ==
  IF n = 0 THEN <<>>
  ELSE EmittedUpTo(lines, n - 1, plain) \o EmittedAt(lines, n, plain)

\* C2 as stated: the OnMessage calls of the SSE client are exactly the
\* logical records of the lines read, a logical record being the
\* concatenation of the payloads of the data: lines up to the next blank line.
C2_Original_OnlyDataRecords ==
  kind = "sse" => delivered = EmittedUpTo(linesRead, Len(linesRead), FALSE)

\* C2 amended: the OnMessage calls of the SSE client are, in the order of the
\* lines, the non-empty logical records (each passed when its blank line is
\* read) and, besides, every line that starts with an opening brace, which is
\* passed by itself as soon as it is read.
C2_MessagesAreRecordsAndPlainLines ==
  kind = "sse" => delivered = EmittedUpTo(linesRead, Len(linesRead), TRUE)

\* C2 witness: a record made of the payloads of two data: lines was passed on.
C2_Witness_TwoLineRecord ==
  /\ kind = "sse"
  /\ delivered # <<>>
  /\ Len(delivered[1]) = 2
  /\ Len(linesRead) = 3

\* What a call of Close returns, by the state it finds.  The SSE Close
\* returns nothing.  The WebSocket Close returns nil without a connection;
\* with one it returns what c.conn.Close() returns, and closing a connection
\* that an earlier Close has closed already is an error.
Close_Result ==
  IF kind = "ws" /\ conn = "closed" THEN "error" ELSE "nil"

\* C12 as stated: every call of Close, in whatever state and however often,
\* returns without an error.
C12_CloseAlwaysReturnsNil ==
  [][closeCalls' = closeCalls + 1 => Close_Result = "nil"]_vars

\* C21: the SSE read loop never emits an incomplete record.  OnMessage is
\* called only in the step that reads a complete line, and then only for a
\* blank line, with the data accumulated before it, or for a plain JSON
\* line, with that line; what follows the last line terminator is never
\* read as a line, and the data pending when the loop ends stays undelivered.
C21_NoIncompleteRecord ==
  [][(kind = "sse" /\ delivered' # delivered)
       => /\ wire # <<>>
          /\ linesRead' = Append(linesRead, Head(wire))
          /\ \/ /\ IsBlank(Head(wire))
                /\ dataBuffer # <<>>
                /\ delivered' = Append(delivered, dataBuffer)
             \/ /\ IsPlainJSON(Head(wire))
                /\ delivered' = Append(delivered, TrimSpace(Head(wire)))]_vars

\* C21 witness: the loop has returned with a record pending that no blank
\* line ended and with an unterminated line on the connection; an earlier
\* complete record was passed on.
C21_Witness_PendingAtEnd ==
  /\ kind = "sse"
  /\ cpc = "exited"
  /\ dataBuffer # <<>>
  /\ tail # <<>>
  /\ Len(delivered) = 1
  /\ Len(linesRead) = 3

\* C26: within one SSE connection the callbacks come in a fixed order:
\* OnMessage calls while the loop reads, then one OnError call for the read
\* error that ends the loop, then OnClose, then the closing of Done; no
\* OnMessage or OnError call comes after OnClose, and Done is not closed
\* before OnClose has returned.
C26_CallbackOrder ==
  /\ [](( kind = "sse" /\ connectResult = "ok") =>
          /\ cpc = "loop" => (onErrorCalls = 0 /\ onCloseCalls = 0 /\ ~doneClosed)
          /\ cpc = "defer" => (onErrorCalls = 1 /\ onCloseCalls = 0 /\ ~doneClosed)
          /\ cpc = "closedone" => (onErrorCalls = 1 /\ onCloseCalls = 1 /\ ~doneClosed)
          /\ cpc = "exited" => (onErrorCalls = 1 /\ onCloseCalls = 1 /\ doneClosed))
  /\ [][(kind = "sse" /\ (delivered' # delivered \/ onErrorCalls' # onErrorCalls))
          => (onCloseCalls = 0 /\ ~doneClosed /\ cpc = "loop")]_vars
  /\ [][(kind = "sse" /\ delivered' # delivered) => onErrorCalls = 0]_vars

\* C26 witness: a connection that gave a message, ended at the end of the
\* stream, and whose loop has returned.
C26_Witness_FullSequence ==
  /\ kind = "sse"
  /\ cpc = "exited"
  /\ ended = "eof"
  /\ delivered # <<>>
  /\ onErrorCalls = 1
  /\ onCloseCalls = 1
  /\ doneClosed

\* The position in lines of the first line of the record that line i gives
\* to OnMessage: the line itself for a plain JSON line, the first data: line
\* after the previous blank line for a blank line.
FirstLineOf(lines, i) ==
  IF IsBlank(lines[i])
    THEN CHOOSE j \in (PrevBlank(lines, i) + 1)..i :
           /\ (IsData(lines[j]) \/ j = i)
           /\ \A k \in (PrevBlank(lines, i) + 1)..(j - 1) : ~IsData(lines[k])
    ELSE i

\* The lines that give something to OnMessage, in the order of the calls.
Emitting(lines) ==
  { i \in 1..Len(lines) : EmittedAt(lines, i, TRUE) # <<>> }

\* The records of lines, each as OnMessage is given it, in the order in
\* which their first lines arrived.
RECURSIVE InArrivalOrder(_, _)
InArrivalOrder(lines, I) ==
  IF I = {} THEN <<>>
  ELSE LET i == CHOOSE x \in I :
                  \A y \in I : FirstLineOf(lines, x) <= FirstLineOf(lines, y)
       IN EmittedAt(lines, i, TRUE) \o InArrivalOrder(lines, I \ {i})

\* C29 as stated: records are passed to OnMessage in the order in which they
\* arrived; a plain JSON line that arrives while data: lines of an earlier
\* record are accumulated is not delivered before that record.
C29_DeliveredInArrivalOrder ==
  kind = "sse" => delivered = InArrivalOrder(linesRead, Emitting(linesRead))

\* ------------------------------------------------- the watch command
\* The live events endpoint with the subscription's filters as its query.
BuildStreamURL(b, p) == <<"/streams/events/live", b, p>>

\* The branch and path filters a run may be given: none, or both.
Filters == { <<"", "">>, <<"main", "src/**">> }

\* Tokens that are one complete JSON object.
JSONObjects ==
  {"{commit}", "{future}", "{agent_claim}", ShortCommit} \cup ChunkObjects \cup BranchObjects

NoJSON == "<not json>"

\* json.Unmarshal of a record into a map: the object, or NoJSON when the
\* bytes are not exactly one JSON object ("{oops" is cut short, and two
\* objects one after the other are trailing data).
Unmarshal(data) ==
  IF Len(data) = 1 /\ data[1] \in JSONObjects THEN data[1] ELSE NoJSON

\* event["type"] of a decoded object.
TypeOf(obj) ==
  CASE obj \in {"{commit}", ShortCommit} -> "commit"
    [] obj = "{agent_claim}" -> "agent_claim"
    [] obj \in ChunkObjects -> "file_chunk"
    [] obj \in BranchObjects -> BranchEventOf(obj).type
    [] OTHER -> "future"

\* The event types printEvent has a compact format for.
PrintEventTypes ==
  {"agent_join", "agent_leave", "agent_claim", "agent_release", "file_write",
   "file_chunk", "commit", "error"}

\* printEvent with a default branch that prints the type only.
printEvent_TypeOnly(obj) ==
  IF TypeOf(obj) \in PrintEventTypes
    THEN [how |-> "compact", type |-> TypeOf(obj), of |-> <<obj>>]
    ELSE [how |-> "compact", type |-> TypeOf(obj), of |-> <<>>]

\* printEvent: a compact line for the types it knows, the whole object as
\* indented JSON for any other type.
printEvent(obj) ==
  IF TypeOf(obj) \in PrintEventTypes
    THEN [how |-> "compact", type |-> TypeOf(obj), of |-> <<obj>>]
    ELSE [how |-> "json", type |-> TypeOf(obj), of |-> <<obj>>]

\* runWatch's OnMessage callback: printEvent for a record that decodes, the
\* record's bytes as they are for one that does not.
rw_OnMessage(data) ==
  IF Unmarshal(data) # NoJSON
    THEN printEvent(Unmarshal(data))
    ELSE [how |-> "raw", type |-> "", of |-> data]

\* A printed event with the section of the output it is in: the recent
\* events come first, under their own heading, the live ones after it.
Tagged(src, e) == [src |-> src, how |-> e.how, type |-> e.type, of |-> e.of]

\* The lines runWatch prints for the records its OnMessage callback is given.
RECURSIVE rw_Printed(_)
rw_Printed(msgs) ==
  IF msgs = <<>> THEN <<>>
  ELSE <<Tagged("live", rw_OnMessage(Head(msgs)))>> \o rw_Printed(Tail(msgs))

\* The lines a server may send to a watch run.
WatchLines ==
  { <<DATA, "{future}">>, <<"{oops">>, <<>> }

\* The callbacks runWatch assigns: the reconnecting loop sets OnMessage and
\* OnError, the single-connection runWatch sets OnClose as well.
rw_Handlers ==
  IF variant = "reconnect" THEN {"OnMessage", "OnError"} ELSE AllHandlers

\* The pause after a connection has ended, in milliseconds.
ReconnectDelay == 500

\* A pause after a failed connect that is shorter than the one after a
\* connection.
RetryDelay_Short == ReconnectDelay \div 2

\* The pause after a failed connect, in milliseconds.
RetryDelay == 2000

\* runWatch up to its loop: the recent events hist (newest first) are printed
\* oldest first, and the stream URL is built from the filters.
rw_Start(hist) ==
  /\ wpc = "start"
  /\ stdout' = stdout \o [i \in 1..Len(hist) |->
                               Tagged("recent", printEvent(hist[Len(hist) + 1 - i]))]
  /\ streamURL' = BuildStreamURL(branch, path)
  /\ wpc' = "top"
  /\ UNCHANGED <<variant, branch, path, requests, received, waits, sentTotal, exitCause>>
  /\ UNCHANGED clientVars

\* A reconnect that subscribes without the filters.
rw_ClientURL_Unfiltered ==
  IF requests = <<>> THEN streamURL ELSE BuildStreamURL("", "")

\* The address the next client is made for.
rw_ClientURL == streamURL

\* The top of the loop: a new client for streamURL, with the callbacks.
rw_NewClient ==
  /\ wpc = "top"
  /\ Len(requests) < MaxAttempts
  /\ NewClient("sse", rw_ClientURL, rw_Handlers)
  /\ wpc' = "connect"
  /\ UNCHANGED <<variant, branch, path, streamURL, requests, received, waits, stdout,
                 sentTotal, exitCause>>

\* streamClient.Connect() and the branch on its error: the reconnecting loop
\* reports the error and goes to its two-second sleep, whatever the error is;
\* the single-connection runWatch returns the error.
rw_Connect(outcome) ==
  /\ wpc = "connect"
  /\ Connect(outcome)
  /\ requests' = Append(requests, [url |-> url, result |-> outcome])
  /\ IF outcome = "ok"
       THEN wpc' = "waitDone" /\ exitCause' = exitCause
       ELSE IF variant = "reconnect"
         THEN wpc' = "sleepFail" /\ exitCause' = exitCause
         ELSE wpc' = "exited" /\ exitCause' = "error"
  /\ UNCHANGED <<variant, branch, path, streamURL, received, waits, stdout,
                 sentTotal>>

\* time.Sleep(2 * time.Second); continue
rw_SleepAfterFailure ==
  /\ wpc = "sleepFail"
  /\ waits' = Append(waits, [after |-> "fail", ms |-> RetryDelay])
  /\ wpc' = "top"
  /\ UNCHANGED <<variant, branch, path, streamURL, requests, received, stdout,
                 sentTotal, exitCause>>
  /\ UNCHANGED clientVars

\* <-streamClient.Done() returns: the reconnecting loop calls Close and goes
\* to its half-second sleep; the single-connection runWatch returns nil, its
\* deferred Close runs, and the process exits with code 0.
rw_DoneReceived ==
  /\ wpc = "waitDone"
  /\ doneClosed
  /\ Close
  /\ IF variant = "reconnect"
       THEN wpc' = "sleepClose" /\ exitCause' = exitCause
       ELSE wpc' = "exited" /\ exitCause' = "closed"
  /\ UNCHANGED <<variant, branch, path, streamURL, requests, received, waits, stdout,
                 sentTotal>>

\* time.Sleep(500 * time.Millisecond), then the next iteration
rw_SleepAfterClose ==
  /\ wpc = "sleepClose"
  /\ waits' = Append(waits, [after |-> "close", ms |-> ReconnectDelay])
  /\ wpc' = "top"
  /\ UNCHANGED <<variant, branch, path, streamURL, requests, received, stdout,
                 sentTotal, exitCause>>
  /\ UNCHANGED clientVars

\* The process is gone, and its client and connection with it.
ProcessExit ==
  /\ NewClient("sse", <<>>, {})
  /\ wpc' = "exited"

\* The user's Ctrl+C: no handler is installed, the signal ends the process.
rw_Interrupt ==
  /\ wpc \notin {"none", "exited"}
  /\ ProcessExit
  /\ exitCause' = "interrupt"
  /\ UNCHANGED <<variant, branch, path, streamURL, requests, received, waits, stdout,
                 sentTotal>>

\* The server writes a line on the connection of the run.
rw_ServerSend(l) ==
  /\ wpc = "waitDone"
  /\ sentTotal < MaxRecords
  /\ ServerSend(l)
  /\ sentTotal' = sentTotal + 1
  /\ UNCHANGED <<variant, wpc, branch, path, streamURL, requests, received, waits, stdout,
                 exitCause>>

rw_ServerEnd(how) ==
  /\ wpc = "waitDone"
  /\ ServerEnd(how, <<>>)
  /\ UNCHANGED watchVars

\* readLoop reads a line while runWatch waits; the records it passes to
\* OnMessage are printed by the callback.
rw_readLoop_Line ==
  /\ wpc = "waitDone"
  /\ readLoop_Line
  /\ LET msgs == OnMessageCalls(readLoopBody(Head(wire), dataBuffer).msgs) IN
       /\ received' = received \o msgs
       /\ stdout' = stdout \o rw_Printed(msgs)
  /\ UNCHANGED <<variant, wpc, branch, path, streamURL, requests, waits,
                 sentTotal, exitCause>>

rw_readLoop_Err ==
  /\ wpc = "waitDone"
  /\ readLoop_Err
  /\ UNCHANGED watchVars

rw_readLoop_DeferOnClose ==
  /\ wpc = "waitDone"
  /\ readLoop_DeferOnClose
  /\ UNCHANGED watchVars

rw_readLoop_DeferCloseDone ==
  /\ wpc = "waitDone"
  /\ readLoop_DeferCloseDone
  /\ UNCHANGED watchVars

InitWatch ==
  /\ variant \in {"reconnect", "oneshot"}
  /\ wpc = "start"
  /\ \E f \in Filters : branch = f[1] /\ path = f[2]
  /\ streamURL = <<>>
  /\ requests = <<>>
  /\ received = <<>>
  /\ waits = <<>>
  /\ stdout = <<>>
  /\ sentTotal = 0
  /\ exitCause = "none"
  /\ InitStream
  /\ kind = "sse"
  /\ InitTuiIdle
  /\ InitCliIdle
  /\ InitCredIdle
  /\ InitWizIdle

NextWatch ==
  \/ UNCHANGED <<tuiVars, cliVars, credVars, wizVars>> /\ \E hist \in {<<>>, <<"{commit}", "{future}">>} : rw_Start(hist)
  \/ UNCHANGED <<tuiVars, cliVars, credVars, wizVars>> /\ rw_NewClient
  \/ UNCHANGED <<tuiVars, cliVars, credVars, wizVars>> /\ \E o \in {"ok", "refused", "401"} : rw_Connect(o)
  \/ UNCHANGED <<tuiVars, cliVars, credVars, wizVars>> /\ rw_SleepAfterFailure
  \/ UNCHANGED <<tuiVars, cliVars, credVars, wizVars>> /\ rw_DoneReceived
  \/ UNCHANGED <<tuiVars, cliVars, credVars, wizVars>> /\ rw_SleepAfterClose
  \/ UNCHANGED <<tuiVars, cliVars, credVars, wizVars>> /\ rw_Interrupt
  \/ UNCHANGED <<tuiVars, cliVars, credVars, wizVars>> /\ \E l \in WatchLines : rw_ServerSend(l)
  \/ UNCHANGED <<tuiVars, cliVars, credVars, wizVars>> /\ \E h \in {"eof", "reset"} : rw_ServerEnd(h)
  \/ UNCHANGED <<tuiVars, cliVars, credVars, wizVars>> /\ rw_readLoop_Line
  \/ UNCHANGED <<tuiVars, cliVars, credVars, wizVars>> /\ rw_readLoop_Err
  \/ UNCHANGED <<tuiVars, cliVars, credVars, wizVars>> /\ rw_readLoop_DeferOnClose
  \/ UNCHANGED <<tuiVars, cliVars, credVars, wizVars>> /\ rw_readLoop_DeferCloseDone

SpecWatch == InitWatch /\ [][NextWatch]_vars

\* The lines of a stream of file_chunk events, one JSON object per line.
ChunkLines == { <<o>> : o \in ChunkObjects }

\* The watch run on a stream of file_chunk events.
NextChunks ==
  \/ UNCHANGED <<tuiVars, cliVars, credVars, wizVars>> /\ \E hist \in {<<>>, <<"{commit}", "{future}">>} : rw_Start(hist)
  \/ UNCHANGED <<tuiVars, cliVars, credVars, wizVars>> /\ rw_NewClient
  \/ UNCHANGED <<tuiVars, cliVars, credVars, wizVars>> /\ \E o \in {"ok", "refused", "401"} : rw_Connect(o)
  \/ UNCHANGED <<tuiVars, cliVars, credVars, wizVars>> /\ rw_SleepAfterFailure
  \/ UNCHANGED <<tuiVars, cliVars, credVars, wizVars>> /\ rw_DoneReceived
  \/ UNCHANGED <<tuiVars, cliVars, credVars, wizVars>> /\ rw_SleepAfterClose
  \/ UNCHANGED <<tuiVars, cliVars, credVars, wizVars>> /\ rw_Interrupt
  \/ UNCHANGED <<tuiVars, cliVars, credVars, wizVars>> /\ \E l \in ChunkLines : rw_ServerSend(l)
  \/ UNCHANGED <<tuiVars, cliVars, credVars, wizVars>> /\ \E h \in {"eof", "reset"} : rw_ServerEnd(h)
  \/ UNCHANGED <<tuiVars, cliVars, credVars, wizVars>> /\ rw_readLoop_Line
  \/ UNCHANGED <<tuiVars, cliVars, credVars, wizVars>> /\ rw_readLoop_Err
  \/ UNCHANGED <<tuiVars, cliVars, credVars, wizVars>> /\ rw_readLoop_DeferOnClose
  \/ UNCHANGED <<tuiVars, cliVars, credVars, wizVars>> /\ rw_readLoop_DeferCloseDone

SpecChunks == InitWatch /\ [][NextChunks]_vars

\* ------------------------------------------- claims on the watch command
\* What the run has printed for live records.
LiveOut == SelectSeq(stdout, LAMBDA e : e.src = "live")

IsValidJSON(data) == Unmarshal(data) # NoJSON

\* C4 as stated: the watch run emits exactly the records that are valid
\* JSON, in the order of their arrival, and drops each malformed record.
C4_EmitsExactlyValidRecords ==
  LET valid == SelectSeq(received, IsValidJSON) IN
  /\ Len(LiveOut) = Len(valid)
  /\ \A i \in 1..Len(LiveOut) :
       LiveOut[i].how # "raw" /\ LiveOut[i].of = valid[i]

\* C5: every record that decodes and whose type printEvent does not know is
\* printed as the generic event that carries the whole record, at its place
\* in the order of arrival; no record makes the run fail (it ends only by an
\* interrupt, or, for the single-connection run, with its connection).
C5_UnknownTypeIsGenericEvent ==
  /\ Len(LiveOut) = Len(received)
  /\ \A i \in 1..Len(received) :
       (IsValidJSON(received[i])
          /\ TypeOf(Unmarshal(received[i])) \notin PrintEventTypes)
       => LiveOut[i] = [src |-> "live", how |-> "json",
                        type |-> TypeOf(Unmarshal(received[i])),
                        of |-> received[i]]
  /\ received # <<>> /\ variant = "reconnect" => exitCause \in {"none", "interrupt"}

\* C5 witness: a record of an unknown type was printed, and a record that
\* arrived after it was printed too.
C5_Witness_UnknownThenNext ==
  /\ Len(received) >= 2
  /\ received[1] = <<"{future}">>
  /\ Len(LiveOut) = Len(received)

\* C7 as stated: a connect attempt rejected with 401 or 403 is the last one,
\* and the run does not go on to the retry path after it.
C7_AuthRejectionIsFatal ==
  \A i \in 1..Len(requests) :
    requests[i].result \in {"401", "403"} =>
      /\ i = Len(requests)
      /\ wpc \notin {"sleepFail", "top", "connect", "waitDone"}

\* C8: every pause of the reconnect loop is at most the longest configured
\* pause; a pause that follows a failed attempt is not shorter than the pause
\* before it (the delay does not decrease while attempts keep failing); and
\* the pause that follows a connection that was established is the base
\* value again.
C8_BackoffMonotoneAndReset ==
  \A i \in 1..Len(waits) :
    /\ waits[i].ms <= RetryDelay
    /\ waits[i].after = "close" => waits[i].ms = ReconnectDelay
    /\ (i > 1 /\ waits[i].after = "fail") => waits[i].ms >= waits[i - 1].ms

\* C8 witness: a pause after a connection, then a failed attempt and its
\* pause, then a connection again and the base pause after it.
C8_Witness_FailAfterCloseThenReset ==
  /\ Len(waits) = 3
  /\ waits[1].after = "close"
  /\ waits[2].after = "fail"
  /\ waits[3].after = "close"

\* C9: every connect attempt of a run, the first and every reconnect, asks
\* for the same stream URL, the one runWatch built from the branch and path
\* filters before its loop.
C9_ReconnectKeepsParameters ==
  \A i \in 1..Len(requests) :
    /\ requests[i].url = requests[1].url
    /\ requests[i].url = streamURL

\* C9 witness: a filtered run has reconnected once after a failed attempt and
\* once after a connection that ended.
C9_Witness_TwoReconnects ==
  /\ branch = "main"
  /\ Len(requests) = 3
  /\ requests[1].result = "refused"
  /\ requests[2].result = "ok"
  /\ Len(waits) = 2

\* C10 as stated: the run ends only when the user cancels it; no transport
\* error and no close of the stream by the server ends it.
C10_EndsOnlyOnUserCancel ==
  wpc = "exited" => exitCause = "interrupt"

\* ------------------------------------------- the interactive watch session
\* In the session a string is a sequence of one-character strings.
Letters ==
  <<"a", "b", "c", "d", "e", "f", "g", "h", "i", "j", "k", "l", "m",
    "n", "o", "p", "q", "r", "s", "t", "u", "v", "w", "x", "y", "z">>

Capitals ==
  <<"A", "B", "C", "D", "E", "F", "G", "H", "I", "J", "K", "L", "M",
    "N", "O", "P", "Q", "R", "S", "T", "U", "V", "W", "X", "Y", "Z">>

\* strings.ToLower
ToLower(s) ==
  [i \in 1..Len(s) |->
     IF \E n \in 1..26 : Capitals[n] = s[i]
       THEN Letters[CHOOSE n \in 1..26 : Capitals[n] = s[i]]
       ELSE s[i]]

\* strings.ToUpper
ToUpper(s) ==
  [i \in 1..Len(s) |->
     IF \E n \in 1..26 : Letters[n] = s[i]
       THEN Capitals[CHOOSE n \in 1..26 : Letters[n] = s[i]]
       ELSE s[i]]

\* strings.Contains
Contains(s, sub) ==
  \E i \in 0..(Len(s) - Len(sub)) : SubSeq(s, i + 1, i + Len(sub)) = sub

NL == "\n"

\* strings.Join(parts, "\n")
RECURSIVE Join(_)
Join(parts) ==
  IF parts = <<>> THEN <<>>
  ELSE IF Len(parts) = 1 THEN parts[1]
  ELSE parts[1] \o <<NL>> \o Join(Tail(parts))

\* strings.Split(s, "\n")
RECURSIVE Split(_)
Split(s) ==
  IF \E i \in 1..Len(s) : s[i] = NL
    THEN LET i == CHOOSE j \in 1..Len(s) :
                    s[j] = NL /\ \A k \in 1..(j - 1) : s[k] # NL
         IN <<SubSeq(s, 1, i - 1)>> \o Split(SubSeq(s, i + 1, Len(s)))
    ELSE <<s>>

\* truncate: s cut to maxLen characters, the last three of them dots.
truncate(s, maxLen) ==
  IF Len(s) <= maxLen THEN s
  ELSE IF maxLen <= 3 THEN SubSeq(s, 1, maxLen)
  ELSE SubSeq(s, 1, maxLen - 3) \o <<".", ".", ".">>

\* The characters of a type name.
Chars(t) ==
  CASE t = "commit" -> <<"c", "o", "m", "m", "i", "t">>
    [] t = "future" -> <<"f", "u", "t", "u", "r", "e">>
    [] t = "CLAIM" -> <<"C", "L", "A", "I", "M">>
    [] t = "RELEASE" -> <<"R", "E", "L", "E", "A", "S", "E">>
    [] OTHER -> <<t>>

\* The fields the event structs decode from an object; a field the object
\* does not have is empty.
NoFields ==
  [type |-> "", sha |-> <<>>, message |-> <<>>, files |-> <<>>,
   branch |-> <<>>, name |-> <<>>, ref |-> <<>>,
   activityType |-> "", activityAgent |-> <<>>, activityPatterns |-> <<>>,
   agent_id |-> <<>>, claim |-> <<>>, patterns |-> <<>>]

Fields(obj) ==
  CASE obj = "{commit}" ->
         [NoFields EXCEPT !.type = "commit",
            !.sha = <<"a", "b", "c", "d", "e", "f", "0", "1", "2">>,
            !.message = <<"f", "i", "x">>,
            !.files = << [action |-> "add", path |-> <<"a", ".", "g", "o">>] >>]
    [] obj = ShortCommit ->
         [NoFields EXCEPT !.type = "commit",
            !.sha = <<"a", "b", "c">>,
            !.message = <<"f", "i", "x">>]
    [] obj \in BranchObjects ->
         [NoFields EXCEPT !.type = BranchEventOf(obj).type,
            !.branch = BranchEventOf(obj).branch,
            !.name = BranchEventOf(obj).name,
            !.ref = BranchEventOf(obj).ref]
    [] obj = "{agent_claim}" ->
         [NoFields EXCEPT !.type = "agent_claim",
            !.agent_id = <<"w", "1">>,
            !.patterns = << <<"*", ".", "g", "o">> >>]
    [] OTHER -> [NoFields EXCEPT !.type = TypeOf(obj)]

\* string(data) of a record that is one object: the object's text.
RawText(obj) == <<"{">> \o Chars(TypeOf(obj)) \o <<"}">>

\* The sign processMessage puts before the path of a changed file.
FilePrefix(action) ==
  CASE action = "add" -> "+"
    [] action = "delete" -> "-"
    [] action = "modify" -> "~"
    [] OTHER -> " "

\* processMessage, the summary and the details of a commit event.
CommitSummary(f) ==
  IF f.sha # <<>>
    THEN (IF Len(f.sha) > 7 THEN SubSeq(f.sha, 1, 7) ELSE f.sha)
           \o <<" ">> \o truncate(f.message, 40)
    ELSE truncate(f.message, 40)

CommitDetails(f) ==
  Join([i \in 1..Len(f.files) |->
          <<FilePrefix(f.files[i].action), " ">> \o f.files[i].path])

\* processMessage, the name shown for a branch event.
BranchName(f) ==
  IF f.branch # <<>> THEN f.branch
  ELSE IF f.name # <<>> THEN f.name
  ELSE f.ref

BranchEventTypes == {"branch:create", "branch:delete", "branch:update", "ref:update"}

\* processMessage, the switch on the type: the watchEvent made of an object.
WatchEventOf(obj) ==
  LET f == Fields(obj) IN
  CASE f.type = "commit" ->
         [Type |-> f.type, Summary |-> CommitSummary(f), Details |-> CommitDetails(f)]
    [] f.type \in BranchEventTypes ->
         [Type |-> f.type, Summary |-> BranchName(f), Details |-> <<>>]
    [] f.type = "activity" ->
         IF f.activityType = "claim"
           THEN [Type |-> "CLAIM", Summary |-> f.activityAgent,
                 Details |-> Join(f.activityPatterns)]
         ELSE IF f.activityType = "release"
           THEN [Type |-> "RELEASE", Summary |-> f.activityAgent,
                 Details |-> Join(f.activityPatterns)]
         ELSE [Type |-> f.type, Summary |-> <<>>, Details |-> <<>>]
    [] f.type = "agent_claim" ->
         [Type |-> "CLAIM",
          Summary |-> IF f.claim # <<>>
                        THEN f.agent_id \o <<" ", "-", " ">> \o truncate(f.claim, 30)
                        ELSE f.agent_id,
          Details |-> Join(f.patterns)]
    [] f.type = "agent_release" ->
         [Type |-> "RELEASE", Summary |-> f.agent_id, Details |-> Join(f.patterns)]
    [] OTHER ->
         [Type |-> f.type, Summary |-> RawText(obj), Details |-> <<>>]

\* The number of events the session keeps.
EventCap == 100

\* processMessage that never cuts the list.
processMessage_NoCap(m, data) ==
  IF Unmarshal(data) = NoJSON THEN m
  ELSE [events |-> <<WatchEventOf(Unmarshal(data))>> \o m.events,
        eventCount |-> m.eventCount + 1]

\* processMessage: a record that does not decode changes nothing; any other
\* is put first in the list, counted, and the list cut to EventCap.
processMessage(m, data) ==
  IF Unmarshal(data) = NoJSON THEN m
  ELSE LET all == <<WatchEventOf(Unmarshal(data))>> \o m.events IN
       [events |-> IF Len(all) > EventCap THEN SubSeq(all, 1, EventCap) ELSE all,
        eventCount |-> m.eventCount + 1]

\* The loop of Update's historicalEventsMsg case: the events are processed
\* from the last (oldest) to the first.
RECURSIVE processHistorical(_, _)
processHistorical(m, evs) ==
  IF evs = <<>> THEN m
  ELSE processHistorical(processMessage(m, <<evs[Len(evs)]>>),
                         SubSeq(evs, 1, Len(evs) - 1))

\* updateViewport, the lines of one event that passes the two filters.
EventLines(e) ==
  <<[kind |-> "event", type |-> ToUpper(Chars(e.Type)), text |-> e.Summary]>>
    \o (IF e.Details # <<>>
          THEN [i \in 1..Len(Split(e.Details)) |->
                  [kind |-> "detail", type |-> <<>>, text |-> Split(e.Details)[i]]]
          ELSE <<>>)

\* updateViewport leaving claim and release events out whatever the switch
\* says.
Shown_ClaimsHidden(e, flt, claimsOn) ==
  /\ e.Type \notin {"CLAIM", "RELEASE"}
  /\ \/ flt = <<>>
     \/ Contains(ToLower(Chars(e.Type) \o <<" ">> \o e.Summary \o <<" ">> \o e.Details),
                 ToLower(flt))

\* updateViewport, whether an event is shown.
Shown(e, flt, claimsOn) ==
  /\ claimsOn \/ e.Type \notin {"CLAIM", "RELEASE"}
  /\ \/ flt = <<>>
     \/ Contains(ToLower(Chars(e.Type) \o <<" ">> \o e.Summary \o <<" ">> \o e.Details),
                 ToLower(flt))

\* updateViewport, the loop over the events: the lines of the events that
\* are shown, in the order of the list (computed half by half).
RECURSIVE Render(_, _, _)
Render(evs, flt, claimsOn) ==
  IF evs = <<>> THEN <<>>
  ELSE IF Len(evs) = 1
    THEN (IF Shown(evs[1], flt, claimsOn) THEN EventLines(evs[1]) ELSE <<>>)
  ELSE Render(SubSeq(evs, 1, Len(evs) \div 2), flt, claimsOn)
         \o Render(SubSeq(evs, Len(evs) \div 2 + 1, Len(evs)), flt, claimsOn)

\* updateViewport: nothing before the first window size, else the content is
\* rendered anew from the list, the filter and the claims switch.
updateViewport(old, isReady, evs, flt, claimsOn) ==
  IF ~isReady THEN old ELSE Render(evs, flt, claimsOn)

\* waitForMessage: no command when the model has no stream client, else the
\* command that installs the callbacks and waits for one of them.
waitForMessage(client) == IF client = "nil" THEN {} ELSE {"waitForMessage"}

\* The messages of the session.
Msg(t, evs, e) == [type |-> t, events |-> evs, err |-> e]

\* What GetRecentStreamEvents returns to the session: an error, or the recent
\* events, newest first.
HistoryResults == { "error", <<>>, <<"{commit}", "{agent_claim}">>, <<"{future}">> }

\* The keys a user presses: the bound ones, and a letter bound to nothing.
Keys == {"q", "ctrl+c", "c", "/", "esc", "enter", "f"}

\* The keys that insert their character into a text input.
Runes == {"q", "c", "/", "f"}

\* watchModel.filterInput.CharLimit
CharLimit == 50

\* filterInput.Update for a key: a character is added at the end while the
\* limit allows it, and any other key leaves the value as it is.
filterInput_Update(value, k) ==
  IF k \in Runes /\ Len(value) < CharLimit THEN Append(value, k) ELSE value

\* The lines a server may send to a session.
TuiLines == { <<DATA, "{commit}">>, <<>> }

\* watchModel.Init: the two commands are made from Init's own copy of the
\* model and handed to the runtime, which runs each in a goroutine.
tui_Init ==
  /\ tpc = "init"
  /\ tpc' = "running"
  /\ cmds' = {"fetchHistorical", "connect"}
  /\ UNCHANGED <<inbox, streamClient, cmdClient, connected, err, events,
                 eventCount, ready, filter, filterInput, filtering, showClaims,
                 viewport, keysTyped, handoff, processed>>
  /\ UNCHANGED clientVars

\* The command made by fetchHistorical: no message on an error.
tui_fetchHistorical(result) ==
  /\ tpc = "running"
  /\ "fetchHistorical" \in cmds
  /\ cmds' = cmds \ {"fetchHistorical"}
  /\ inbox' = IF result = "error" THEN inbox
              ELSE inbox \cup {Msg("historicalEventsMsg", result, "nil")}
  /\ UNCHANGED <<tpc, streamClient, cmdClient, connected, err, events,
                 eventCount, ready, filter, filterInput, filtering, showClaims,
                 viewport, keysTyped, handoff, processed>>
  /\ UNCHANGED clientVars

\* The command made by connect, up to the assignment of the new client: the
\* receiver is the copy of the model Init was called on, so that copy's
\* streamClient is set and the runtime's model keeps its own.
tui_connect_NewClient ==
  /\ tpc = "running"
  /\ "connect" \in cmds
  /\ NewClient("sse", BuildStreamURL(branch, path), {})
  /\ cmdClient' = "client"
  /\ cmds' = (cmds \ {"connect"}) \cup {"connecting"}
  /\ UNCHANGED <<tpc, inbox, streamClient, connected, err, events,
                 eventCount, ready, filter, filterInput, filtering, showClaims,
                 viewport, keysTyped, handoff, processed>>

\* The command made by connect, from Connect to its return.
tui_connect_Connect(outcome) ==
  /\ tpc = "running"
  /\ "connecting" \in cmds
  /\ Connect(outcome)
  /\ cmds' = cmds \ {"connecting"}
  /\ inbox' = inbox \cup
       { IF outcome = "ok" THEN Msg("streamConnectedMsg", <<>>, "nil")
         ELSE Msg("streamErrorMsg", <<>>, outcome) }
  /\ UNCHANGED <<tpc, streamClient, cmdClient, connected, err, events,
                 eventCount, ready, filter, filterInput, filtering, showClaims,
                 viewport, keysTyped, handoff, processed>>

\* Update, case tea.WindowSizeMsg.
tui_Update_WindowSize ==
  /\ tpc = "running"
  /\ ready' = TRUE
  /\ viewport' = updateViewport(viewport, TRUE, events, filter, showClaims)
  /\ UNCHANGED <<tpc, cmds, inbox, streamClient, cmdClient, connected, err,
                 events, eventCount, filter, filterInput, filtering,
                 showClaims, keysTyped, handoff, processed>>
  /\ UNCHANGED clientVars

\* Update, case tea.KeyMsg.  While the filter is edited only esc and enter
\* are read as commands and every other key goes to the text input; else
\* q and ctrl+c close the stream client the model has and quit, c switches
\* the claims, "/" starts editing and esc clears a filter.
Update_Key(k) ==
  /\ tpc = "running"
  /\ keysTyped' = keysTyped + 1
  /\ LET typing == filtering /\ k \notin {"esc", "enter"}
         quits == ~filtering /\ k \in {"q", "ctrl+c"}
         clears == ~filtering /\ k = "esc" /\ filter # <<>>
         toggles == ~filtering /\ k = "c"
     IN
       /\ tpc' = IF quits THEN "quit" ELSE tpc
       /\ IF quits /\ streamClient # "nil" THEN Close ELSE UNCHANGED clientVars
       /\ filterInput' = IF typing THEN filterInput_Update(filterInput, k)
                         ELSE IF clears THEN <<>>
                         ELSE filterInput
       /\ filter' = IF typing \/ (filtering /\ k = "enter") THEN filterInput'
                    ELSE IF clears THEN <<>>
                    ELSE filter
       /\ filtering' = IF filtering THEN k \notin {"esc", "enter"}
                       ELSE k = "/"
       /\ showClaims' = IF toggles THEN ~showClaims ELSE showClaims
       /\ viewport' = IF typing \/ (filtering /\ k = "enter") \/ clears \/ toggles
                        THEN updateViewport(viewport, ready, events, filter', showClaims')
                        ELSE viewport
  /\ UNCHANGED <<cmds, inbox, streamClient, cmdClient, connected, err, events,
                 eventCount, ready, handoff, processed>>

\* A key press of the session, while the bound on the keys allows one.
tui_Update_Key(k) ==
  /\ keysTyped < MaxKeys
  /\ Update_Key(k)

\* Update, case streamConnectedMsg.
tui_Update_Connected ==
  /\ tpc = "running"
  /\ Msg("streamConnectedMsg", <<>>, "nil") \in inbox
  /\ inbox' = inbox \ {Msg("streamConnectedMsg", <<>>, "nil")}
  /\ connected' = TRUE
  /\ cmds' = cmds \cup waitForMessage(streamClient)
  /\ UNCHANGED <<tpc, streamClient, cmdClient, err, events, eventCount, ready,
                 filter, filterInput, filtering, showClaims, viewport,
                 keysTyped, handoff, processed>>
  /\ UNCHANGED clientVars

\* Update, case historicalEventsMsg.
tui_Update_Historical ==
  /\ tpc = "running"
  /\ \E msg \in inbox :
       /\ msg.type = "historicalEventsMsg"
       /\ inbox' = inbox \ {msg}
       /\ LET m == processHistorical([events |-> events, eventCount |-> eventCount],
                                     msg.events)
          IN /\ events' = m.events
             /\ eventCount' = m.eventCount
             /\ viewport' = updateViewport(viewport, ready, m.events, filter, showClaims)
       /\ processed' = processed \o
            [i \in 1..Len(msg.events) |->
               [src |-> "hist", data |-> <<msg.events[Len(msg.events) + 1 - i]>>]]
  /\ UNCHANGED <<tpc, cmds, streamClient, cmdClient, connected, err, ready,
                 filter, filterInput, filtering, showClaims, keysTyped, handoff>>
  /\ UNCHANGED clientVars

\* Update, case streamErrorMsg: the error is kept and shown, and no command
\* is returned.
tui_Update_Error ==
  /\ tpc = "running"
  /\ \E msg \in inbox :
       /\ msg.type = "streamErrorMsg"
       /\ inbox' = inbox \ {msg}
       /\ err' = msg.err
  /\ connected' = FALSE
  /\ UNCHANGED <<tpc, cmds, streamClient, cmdClient, events, eventCount, ready,
                 filter, filterInput, filtering, showClaims, viewport,
                 keysTyped, handoff, processed>>
  /\ UNCHANGED clientVars

\* The server and the client's readLoop during a session.  The server writes
\* well-formed events, a data line and then a blank line.  The client has no
\* callbacks: they are assigned by waitForMessage only.
tui_ServerSend(l) ==
  /\ tpc = "running"
  /\ l = IF (Len(linesRead) + Len(wire)) % 2 = 0 THEN <<DATA, "{commit}">> ELSE <<>>
  /\ ServerSend(l)
  /\ UNCHANGED tuiVars

tui_ServerEnd(how) ==
  /\ tpc = "running"
  /\ ServerEnd(how, <<>>)
  /\ UNCHANGED tuiVars

tui_readLoop_Line ==
  /\ tpc = "running"
  /\ readLoop_Line
  /\ handoff' = IF connected
                  THEN handoff \o readLoopBody(Head(wire), dataBuffer).msgs
                  ELSE handoff
  /\ UNCHANGED <<tpc, cmds, inbox, streamClient, cmdClient, connected, err,
                 events, eventCount, ready, filter, filterInput, filtering,
                 showClaims, viewport, keysTyped, processed>>

tui_readLoop_Err ==
  /\ tpc = "running"
  /\ readLoop_Err
  /\ UNCHANGED tuiVars

tui_readLoop_DeferOnClose ==
  /\ tpc = "running"
  /\ readLoop_DeferOnClose
  /\ UNCHANGED tuiVars

tui_readLoop_DeferCloseDone ==
  /\ tpc = "running"
  /\ readLoop_DeferCloseDone
  /\ UNCHANGED tuiVars

\* runWatchTUI: a session on a terminal, with the filters of the command line.
InitTUI ==
  /\ InitStream
  /\ kind = "sse"
  /\ variant = "tui"
  /\ wpc = "none"
  /\ \E f \in Filters : branch = f[1] /\ path = f[2]
  /\ streamURL = <<>>
  /\ requests = <<>>
  /\ received = <<>>
  /\ waits = <<>>
  /\ stdout = <<>>
  /\ sentTotal = 0
  /\ exitCause = "none"
  /\ tpc = "init"
  /\ cmds = {}
  /\ inbox = {}
  /\ streamClient = "nil"
  /\ cmdClient = "nil"
  /\ connected = FALSE
  /\ err = "nil"
  /\ events = <<>>
  /\ eventCount = 0
  /\ ready = FALSE
  /\ filter = <<>>
  /\ filterInput = <<>>
  /\ filtering = FALSE
  /\ showClaims = TRUE
  /\ viewport = <<>>
  /\ keysTyped = 0
  /\ handoff = <<>>
  /\ processed = <<>>
  /\ InitCliIdle
  /\ InitCredIdle
  /\ InitWizIdle

NextTUI ==
  \/ UNCHANGED <<watchVars, cliVars, credVars, wizVars>> /\ tui_Init
  \/ UNCHANGED <<watchVars, cliVars, credVars, wizVars>> /\ \E r \in HistoryResults : tui_fetchHistorical(r)
  \/ UNCHANGED <<watchVars, cliVars, credVars, wizVars>> /\ tui_connect_NewClient
  \/ UNCHANGED <<watchVars, cliVars, credVars, wizVars>> /\ \E o \in {"ok", "refused", "401"} : tui_connect_Connect(o)
  \/ UNCHANGED <<watchVars, cliVars, credVars, wizVars>> /\ tui_Update_WindowSize
  \/ UNCHANGED <<watchVars, cliVars, credVars, wizVars>> /\ \E k \in Keys : tui_Update_Key(k)
  \/ UNCHANGED <<watchVars, cliVars, credVars, wizVars>> /\ tui_Update_Connected
  \/ UNCHANGED <<watchVars, cliVars, credVars, wizVars>> /\ tui_Update_Historical
  \/ UNCHANGED <<watchVars, cliVars, credVars, wizVars>> /\ tui_Update_Error
  \/ UNCHANGED <<watchVars, cliVars, credVars, wizVars>> /\ \E l \in TuiLines : tui_ServerSend(l)
  \/ UNCHANGED <<watchVars, cliVars, credVars, wizVars>> /\ \E h \in {"eof", "reset"} : tui_ServerEnd(h)
  \/ UNCHANGED <<watchVars, cliVars, credVars, wizVars>> /\ tui_readLoop_Line
  \/ UNCHANGED <<watchVars, cliVars, credVars, wizVars>> /\ tui_readLoop_Err
  \/ UNCHANGED <<watchVars, cliVars, credVars, wizVars>> /\ tui_readLoop_DeferOnClose
  \/ UNCHANGED <<watchVars, cliVars, credVars, wizVars>> /\ tui_readLoop_DeferCloseDone

SpecTUI == InitTUI /\ [][NextTUI]_vars

\* ------------------------------------- the session at the keyboard
\* The recent events a session can have been given, newest first.
RecentEvents == { <<>>, <<"{commit}", "{agent_claim}">>, <<"{future}">> }

\* A session whose recent events have been processed and whose connect
\* attempt was refused: every command has returned and every message has
\* been handled, so only the user and the terminal act on it.
InitFilter ==
  /\ kind = "sse"
  /\ cpc = "failed"
  /\ handlers = {}
  /\ cancel = "set"
  /\ conn = "nil"
  /\ closer = "idle"
  /\ wire = <<>>
  /\ ended = "open"
  /\ tail = <<>>
  /\ dataBuffer = <<>>
  /\ linesRead = <<>>
  /\ delivered = <<>>
  /\ onErrorCalls = 0
  /\ onCloseCalls = 0
  /\ doneClosed = FALSE
  /\ closeCalls = 0
  /\ connectResult = "refused"
  /\ variant = "tui"
  /\ wpc = "none"
  /\ \E f \in Filters : branch = f[1] /\ path = f[2]
  /\ url = BuildStreamURL(branch, path)
  /\ streamURL = <<>>
  /\ requests = <<>>
  /\ received = <<>>
  /\ waits = <<>>
  /\ stdout = <<>>
  /\ sentTotal = 0
  /\ exitCause = "none"
  /\ tpc = "running"
  /\ cmds = {}
  /\ inbox = {}
  /\ streamClient = "nil"
  /\ cmdClient = "client"
  /\ connected = FALSE
  /\ err = "refused"
  /\ \E hist \in RecentEvents :
       /\ events = processHistorical([events |-> <<>>, eventCount |-> 0], hist).events
       /\ eventCount = processHistorical([events |-> <<>>, eventCount |-> 0], hist).eventCount
       /\ processed = [i \in 1..Len(hist) |->
                         [src |-> "hist", data |-> <<hist[Len(hist) + 1 - i]>>]]
  /\ ready = FALSE
  /\ filter = <<>>
  /\ filterInput = <<>>
  /\ filtering = FALSE
  /\ showClaims = TRUE
  /\ viewport = <<>>
  /\ keysTyped = 0
  /\ handoff = <<>>
  /\ InitCliIdle
  /\ InitCredIdle
  /\ InitWizIdle

\* A key press of the session at the keyboard.
flt_Update_Key(k) ==
  /\ keysTyped < MaxFilterKeys
  /\ Update_Key(k)

NextFilter ==
  \/ UNCHANGED <<watchVars, cliVars, credVars, wizVars>> /\ tui_Update_WindowSize
  \/ UNCHANGED <<watchVars, cliVars, credVars, wizVars>> /\ \E k \in Keys : flt_Update_Key(k)

SpecFilter == InitFilter /\ [][NextFilter]_vars

\* ------------------------------------- the session processing records
\* The records a session is handed: commits with a long and a short sha,
\* the branch events, an event of a type unknown to the session, and a
\* record that is not JSON.
EventRecords ==
  { <<"{commit}">>, <<ShortCommit>>, <<"{future}">>, <<"{oops">> }
    \cup { <<o>> : o \in BranchObjects }

\* The numbers of events a session has processed before: none, as many as
\* the list keeps, or one less.
Preloaded == {0, EventCap - 1, EventCap}

\* What a session processed before: the same event n times.
Earlier(n) == [i \in 1..n |-> [src |-> "earlier", data |-> <<"{future}">>]]

\* A running session that has processed n records.
InitEvents ==
  /\ InitStream
  /\ kind = "sse"
  /\ variant = "tui"
  /\ wpc = "none"
  /\ branch = ""
  /\ path = ""
  /\ streamURL = <<>>
  /\ requests = <<>>
  /\ received = <<>>
  /\ waits = <<>>
  /\ stdout = <<>>
  /\ sentTotal = 0
  /\ exitCause = "none"
  /\ tpc = "running"
  /\ cmds = {}
  /\ inbox = {}
  /\ streamClient = "nil"
  /\ cmdClient = "nil"
  /\ connected = TRUE
  /\ err = "nil"
  /\ \E n \in Preloaded :
       /\ processed = Earlier(n)
       /\ events = [i \in 1..n |-> WatchEventOf("{future}")]
       /\ eventCount = n
  /\ ready = FALSE
  /\ filter = <<>>
  /\ filterInput = <<>>
  /\ filtering = FALSE
  /\ showClaims = TRUE
  /\ viewport = <<>>
  /\ keysTyped = 0
  /\ handoff = <<>>
  /\ InitCliIdle
  /\ InitCredIdle
  /\ InitWizIdle

\* Update, case streamMessageMsg: the record is processed, the content
\* rendered anew, and the next message waited for.
evt_Update_StreamMessage(data) ==
  /\ tpc = "running"
  /\ Len(SelectSeq(processed, LAMBDA r : r.src = "live")) < MaxProcessed
  /\ LET m == processMessage([events |-> events, eventCount |-> eventCount], data)
     IN /\ events' = m.events
        /\ eventCount' = m.eventCount
        /\ viewport' = updateViewport(viewport, ready, m.events, filter, showClaims)
  /\ processed' = Append(processed, [src |-> "live", data |-> data])
  /\ cmds' = cmds \cup waitForMessage(streamClient)
  /\ UNCHANGED <<tpc, inbox, streamClient, cmdClient, connected, err, ready,
                 filter, filterInput, filtering, showClaims, keysTyped, handoff>>
  /\ UNCHANGED clientVars

NextEvents ==
  \/ UNCHANGED <<watchVars, cliVars, credVars, wizVars>> /\ tui_Update_WindowSize
  \/ UNCHANGED <<watchVars, cliVars, credVars, wizVars>> /\ \E data \in EventRecords : evt_Update_StreamMessage(data)

SpecEvents == InitEvents /\ [][NextEvents]_vars

\* ------------------------------------- the TypeScript watch command
\* The text of a field in a template literal: an absent field gives
\* "undefined".
TsText(v) == IF v = <<>> THEN <<"undefined">> ELSE v

\* sha?.slice(0, 7) || "".
TsShortSha(sha) == IF Len(sha) > 7 THEN SubSeq(sha, 1, 7) ELSE sha

\* One line of console output.
TsLine(t, shown, rest) == [type |-> t, shown |-> shown, rest |-> rest]

\* The onMessage callback of the repository watch: what it prints for a
\* decoded message.
ts_onMessage(obj) ==
  LET f == Fields(obj) IN
  CASE f.type = "commit" ->
         <<TsLine("commit", TsShortSha(f.sha), f.message)>>
           \o (IF f.branch # <<>> THEN <<TsLine("on", f.branch, <<>>)>> ELSE <<>>)
           \o [i \in 1..(IF Len(f.files) > 5 THEN 5 ELSE Len(f.files)) |->
                 TsLine("file", <<FilePrefix(f.files[i].action)>>, f.files[i].path)]
           \o (IF Len(f.files) > 5 THEN <<TsLine("more", <<>>, <<Len(f.files) - 5>>)>> ELSE <<>>)
    [] f.type \in {"branch:create", "branch:delete"} ->
         <<TsLine(f.type, TsText(IF f.branch # <<>> THEN f.branch ELSE f.name), <<>>)>>
    [] f.type = "branch:update" ->
         <<TsLine(f.type, TsText(IF f.branch # <<>> THEN f.branch ELSE f.name),
                  <<" ", "-", ">", " ">>)>>
    [] f.type = "ref:update" ->
         <<TsLine(f.type, TsText(f.ref), <<" ", "-", ">", " ">>)>>
    [] OTHER ->
         <<TsLine(f.type, <<>>, RawText(obj))>>

\* connectWebSocket's message handler: a message that parses goes to
\* onMessage, any other is reported on the error output.
ts_ws_Message(data) ==
  /\ variant = "ts"
  /\ Len(received) < MaxProcessed
  /\ received' = Append(received, data)
  /\ stdout' = IF Unmarshal(data) = NoJSON
                 THEN Append(stdout, TsLine("parse error", <<>>, <<>>))
                 ELSE stdout \o ts_onMessage(Unmarshal(data))
  /\ UNCHANGED <<variant, wpc, branch, path, streamURL, requests, waits,
                 sentTotal, exitCause>>

\* The watch command of the TypeScript client, connected.
InitTsWatch ==
  /\ InitStream
  /\ kind = "ws"
  /\ variant = "ts"
  /\ wpc = "none"
  /\ branch \in {"", "main"}
  /\ path = ""
  /\ streamURL = <<>>
  /\ requests = <<>>
  /\ received = <<>>
  /\ waits = <<>>
  /\ stdout = <<>>
  /\ sentTotal = 0
  /\ exitCause = "none"
  /\ InitTuiIdle
  /\ InitCliIdle
  /\ InitCredIdle
  /\ InitWizIdle

NextTsWatch ==
  \/ UNCHANGED <<clientVars, tuiVars, cliVars, credVars, wizVars>> /\ \E data \in EventRecords : ts_ws_Message(data)

SpecTsWatch == InitTsWatch /\ [][NextTsWatch]_vars

\* ------------------------------------------- claims on the session
LiveProcessed == SelectSeq(processed, LAMBDA r : r.src = "live")

\* C3: once the stream of a running session has ended and no command and no
\* message is outstanding, the records the session has processed as live
\* messages are the records its stream client took off the stream after the
\* connected signal, none missing.
C3_NoRecordLostInHandOff ==
  (tpc = "running" /\ connected /\ cpc = "exited" /\ cmds = {} /\ inbox = {})
    => [i \in 1..Len(LiveProcessed) |-> LiveProcessed[i].data] = handoff

\* C6: a running session that has been told of a connection failure has
\* another connect attempt under way.
C6_ReconnectsAfterFailure ==
  (tpc = "running" /\ err # "nil")
    => (cmds \cap {"connect", "connecting"} # {})

\* C11 as stated: a session that has quit while its stream connection was
\* open has called Close on the stream client, so that the request context
\* is cancelled.
C11_QuitClosesOpenStream ==
  (tpc = "quit" /\ connectResult = "ok" /\ cpc = "loop")
    => (closeCalls > 0 /\ cancel = "called")

\* The lines of every event of the list, none left out.
RECURSIVE AllEventLines(_)
AllEventLines(evs) ==
  IF evs = <<>> THEN <<>> ELSE EventLines(Head(evs)) \o AllEventLines(Tail(evs))

\* C22: the text filter and the claims switch act on the rendering only.  A
\* key press (entering, changing, clearing the filter, switching the claims)
\* leaves the stored events and the event count as they are, and with an
\* empty filter and the claims shown the content is the lines of every
\* stored event.
C22_FilterActsOnRenderingOnly ==
  /\ [][keysTyped' # keysTyped => (events' = events /\ eventCount' = eventCount)]_vars
  /\ []((ready /\ filter = <<>> /\ showClaims) => viewport = AllEventLines(events))

\* C22 witness: a filter is set and the claims are switched off, the content
\* leaves events out, and the two stored events are still there.
C22_Witness_FilteredButStored ==
  /\ ready
  /\ filter # <<>>
  /\ ~showClaims
  /\ ~filtering
  /\ Len(events) = 2
  /\ eventCount = 2
  /\ viewport # AllEventLines(events)

\* C28 as stated: in every mode of the session, the one in which the filter
\* input is focused included, pressing ctrl+c ends the session.
C28_CtrlCAlwaysQuits ==
  [][tui_Update_Key("ctrl+c") => tpc' = "quit"]_vars

\* The records processed so far that decode, oldest first.
ParseableProcessed == SelectSeq(processed, LAMBDA r : Unmarshal(r.data) # NoJSON)

\* The decoded fields of the records the events of the list were made of:
\* event i is made of the i-th newest record that decodes.
FieldsOfEvents ==
  LET pp == ParseableProcessed
  IN [i \in 1..Len(events) |-> Fields(Unmarshal(pp[Len(pp) + 1 - i].data))]

\* branch, else name, else ref.
ByPriority(f) ==
  IF f.branch # <<>> THEN f.branch ELSE IF f.name # <<>> THEN f.name ELSE f.ref

\* The session shows every branch event under branch, else name, else ref:
\* in the list and, once the window has a size, in the content.
SessionBranchNamePriority ==
  LET fs == FieldsOfEvents IN
  \A i \in 1..Len(events) :
    fs[i].type \in BranchEventTypes
      => /\ events[i].Summary = ByPriority(fs[i])
         /\ ready => \E j \in 1..Len(viewport) :
                       viewport[j] = [kind |-> "event",
                                      type |-> ToUpper(Chars(fs[i].type)),
                                      text |-> ByPriority(fs[i])]

\* C23 as stated: for every branch event (create, delete, update and ref
\* update) the name shown is the value of branch if it is not empty, else
\* that of name if it is not empty, else that of ref.
C23_BranchNamePriority ==
  \A i \in 1..Len(received) :
    LET f == Fields(Unmarshal(received[i])) IN
    f.type \in BranchEventTypes
      => \E j \in 1..Len(stdout) :
           stdout[j].type = f.type /\ stdout[j].shown = ByPriority(f)

\* C24 as stated: for every commit event the sha in the rendered line is
\* the first 7 characters of the event's sha (all of it when it has 7 or
\* fewer), and the event the session keeps holds the whole sha.
C24_FullShaRetained ==
  LET fs == FieldsOfEvents IN
  \A i \in 1..Len(events) :
    LET f == fs[i] IN
    f.type = "commit"
      => /\ SubSeq(events[i].Summary, 1, IF Len(f.sha) > 7 THEN 8 ELSE Len(f.sha) + 1)
              = (IF Len(f.sha) > 7 THEN SubSeq(f.sha, 1, 7) ELSE f.sha) \o <<" ">>
         /\ \/ Contains(events[i].Summary, f.sha)
            \/ Contains(events[i].Details, f.sha)

\* C27: the list holds the min(eventCount, 100) most recently processed
\* records that decode, newest first; eventCount is the number of records
\* that decode, so it grows by one with each of them and not at all with a
\* record that does not decode; the list never holds more than 100 events
\* and eventCount never decreases.
C27_ListIsRecentWindow ==
  /\ [](LET pp == ParseableProcessed IN
        /\ eventCount = Len(pp)
        /\ Len(events) = (IF eventCount < 100 THEN eventCount ELSE 100)
        /\ \A i \in 1..Len(events) :
             events[i] = WatchEventOf(Unmarshal(pp[Len(pp) + 1 - i].data)))
  /\ [][eventCount' >= eventCount]_vars
  /\ [][processed' # processed
         => eventCount' = eventCount
              + (IF Unmarshal(processed'[Len(processed')].data) # NoJSON THEN 1 ELSE 0)]_vars

\* C27 witness: a session that has processed more records than the list
\* keeps, one of them not decodable, with a branch event as the newest.
C27_Witness_OverTheCap ==
  /\ eventCount = 101
  /\ Len(events) = 100
  /\ Len(processed) = 102
  /\ \E i \in 1..Len(processed) : Unmarshal(processed[i].data) = NoJSON
  /\ events[1].Type = "ref:update"
  /\ events[100].Type = "future"

(***************************************************************************)
(* The coordination commands: claim and release.                            *)
(*                                                                          *)
(* One process runs one command.  The command parses its arguments, sends   *)
(* one request through the API client, and reports what came back.  A       *)
(* response is a status with a body; status 0 stands for a request that     *)
(* got no response at all (httpClient.Do returned an error).                *)
(***************************************************************************)

\* The default of the --ttl flag.
DefaultTTL == 300

\* What uuid.New().String()[:8] can give, prefixed with "cli-".
GeneratedIDs == { "cli-1a2b3c4d", "cli-9f8e7d6c" }

\* Competing claims a server can report (model.ClaimConflict).
Competitor1 ==
  [agent_name |-> "worker one", agent_id |-> "w1", patterns |-> <<"*.go">>, claim |-> "refactor"]

Competitor2 ==
  [agent_name |-> "", agent_id |-> "w2-0123456789", patterns |-> <<"src/**", "*.ts">>, claim |-> "tests"]

\* A response body: its text, whether the text is a JSON object, and the
\* fields the decoders look at ("" and <<>> when the field is absent).
Body(raw, json, msg, error, type, conflicts, expires) ==
  [raw |-> raw, json |-> json, message |-> msg, error |-> error,
   type |-> type, conflicts |-> conflicts, expires_at |-> expires]

EmptyBody == Body("", FALSE, "", "", "", <<>>, "")

GarbageBody == Body("<html>", FALSE, "", "", "", <<>>, "")

ObjectBody == Body("{}", TRUE, "", "", "", <<>>, "")

GrantedBody == Body("{expires_at}", TRUE, "", "", "", <<>>, "2030-01-01T00:00:00Z")

ConflictBody == Body("{claim_conflict,[w1,w2]}", TRUE, "", "", "claim_conflict",
                     <<Competitor1, Competitor2>>, "")

ConflictNoListBody == Body("{claim_conflict,[]}", TRUE, "", "", "claim_conflict", <<>>, "")

ConflictErrorBody == Body("{error,claim_conflict,[w1]}", TRUE, "", "conflict", "claim_conflict",
                          <<Competitor1>>, "")

MessageBody == Body("{message}", TRUE, "not the holder", "", "", <<>>, "")

ErrorBody == Body("{error}", TRUE, "", "forbidden", "", <<>>, "")

\* The responses a claim request can get.
ClaimResponses ==
  { [status |-> 200, body |-> b] :
      b \in { GrantedBody, ConflictBody, ConflictNoListBody, EmptyBody, ObjectBody, GarbageBody } }
  \cup { [status |-> 409, body |-> ConflictErrorBody],
         [status |-> 409, body |-> ConflictBody],
         [status |-> 500, body |-> MessageBody],
         [status |-> 0, body |-> EmptyBody] }

\* The responses a release request can get.
ReleaseResponses ==
  { [status |-> 200, body |-> ObjectBody],
    [status |-> 204, body |-> EmptyBody],
    [status |-> 404, body |-> MessageBody],
    [status |-> 403, body |-> ErrorBody],
    [status |-> 409, body |-> GarbageBody],
    [status |-> 500, body |-> EmptyBody],
    [status |-> 0, body |-> EmptyBody] }

\* An error value: "" for nil; an APIError carries status and message.
Err(k, status, msg) == [kind |-> k, status |-> status, msg |-> msg]

NilErr == Err("", 0, "")

\* Client.request: no response is the transport's error; a status of 400
\* or more is an APIError whose message is the body's message field, else
\* its error field, else the body text; otherwise the body is returned.
request(r) ==
  IF r.status = 0 THEN [data |-> EmptyBody, err |-> Err("transport", 0, "connection refused")]
  ELSE IF r.status >= 400 THEN
    [data |-> EmptyBody,
     err  |-> Err("api", r.status,
                  IF r.body.json /\ r.body.message # "" THEN r.body.message
                  ELSE IF r.body.json /\ r.body.error # "" THEN r.body.error
                  ELSE r.body.raw)]
  ELSE [data |-> r.body, err |-> NilErr]

\* The zero model.ClaimResponse.
ZeroClaimResponse == [Type |-> "", Conflicts |-> <<>>, ExpiresAt |-> ""]

\* Client.Claim, that is Client.Post into a ClaimResponse: one request; a
\* body of length 0 leaves the zero response, any other body is decoded
\* and a body that is not JSON is a decoding error.
Claim(r) ==
  LET res == request(r) IN
    IF res.err # NilErr THEN [resp |-> ZeroClaimResponse, err |-> res.err]
    ELSE IF res.data.raw = "" THEN [resp |-> ZeroClaimResponse, err |-> NilErr]
    ELSE IF ~res.data.json THEN [resp |-> ZeroClaimResponse, err |-> Err("decode", 0, "invalid character")]
    ELSE [resp |-> [Type |-> res.data.type, Conflicts |-> res.data.conflicts,
                    ExpiresAt |-> res.data.expires_at],
          err  |-> NilErr]

\* Client.Release that drops the error of the request.
Release_NoError(r) == NilErr

\* Client.Release, that is Client.Delete: the error of the request.
Release(r) == request(r).err

\* One piece of output: the stream, the kind of line, and what it carries.
Line(to, k, agent, pats, text) ==
  [to |-> to, kind |-> k, agent |-> agent, patterns |-> pats, text |-> text]

\* APIError.Error() and the other errors' texts, as cobra prints them
\* ("Error: ..."): the status and the message of an API error.
ErrorLine(e) == Line("stderr", "error", "", <<>>, <<e.kind, e.status, e.msg>>)

\* The three lines printed for one competing claim.
ConflictLines(c) ==
  << Line("stdout", "conflict_agent", c.agent_id, <<>>, c.agent_name),
     Line("stdout", "conflict_patterns", "", c.patterns, ""),
     Line("stdout", "conflict_claim", "", <<>>, c.claim) >>

RECURSIVE AllConflictLines(_)
AllConflictLines(cs) ==
  IF cs = <<>> THEN <<>> ELSE ConflictLines(Head(cs)) \o AllConflictLines(Tail(cs))

\* The success output naming the --agent-id flag as given.
EchoedAgentID_Flag == IF agentGiven THEN agentID ELSE ""

\* The identifier the success output names.
EchoedAgentID == agentID

\* The success output of claim, JSON or text.
ClaimSuccessLines(resp) ==
  IF outputFormat = "json"
    THEN << Line("stdout", "json", EchoedAgentID, patterns, resp.ExpiresAt) >>
    ELSE << Line("stdout", "success", EchoedAgentID, <<>>, "Claimed patterns as"),
            Line("stdout", "patterns", "", patterns, "") >>
         \o (IF resp.ExpiresAt # "" THEN << Line("stdout", "expires", "", <<>>, resp.ExpiresAt) >>
                                    ELSE <<>>)
         \o << Line("stdout", "info", EchoedAgentID, <<>>, "Use --agent-id to release") >>

\* The request claim builds (model.ClaimRequest) and Client.Claim posts.
ClaimRequest ==
  [method |-> "POST", agent_id |-> agentID', patterns |-> patterns,
   claim |-> message', ttl_seconds |-> ttl]

\* The request release builds (model.ReleaseRequest) and Client.Release sends.
ReleaseRequest ==
  [method |-> "DELETE", agent_id |-> agentID, patterns |-> patterns,
   claim |-> "", ttl_seconds |-> 0]

\* Execute: a command that returned an error has it printed and the
\* process exits with 1; otherwise the process exits with 0.
Fail(e) ==
  /\ out' = Append(out, ErrorLine(e))
  /\ exitCode' = 1
  /\ step' = "done"

\* claim, up to the request: fewer than two arguments and a reference
\* without branch are errors; a missing agent id is generated, a missing
\* message gets its default; without a usable configuration the command
\* fails; otherwise the request goes out.
claim_Run(id, cfg) ==
  /\ command = "claim"
  /\ step = "start"
  /\ IF patterns = <<>> THEN
       /\ Fail(Err("usage", 0, "requires at least 2 arg(s)"))
       /\ UNCHANGED <<agentID, message, sent>>
     ELSE IF refBranch = "" THEN
       /\ Fail(Err("usage", 0, "branch is required"))
       /\ UNCHANGED <<agentID, message, sent>>
     ELSE
       /\ agentID' = IF agentID = "" THEN id ELSE agentID
       /\ message' = IF message = "" THEN "CLI claim" ELSE message
       /\ IF cfg = "error" THEN
            /\ Fail(Err("config", 0, "not logged in"))
            /\ UNCHANGED sent
          ELSE
            /\ sent' = Append(sent, ClaimRequest)
            /\ step' = "awaiting"
            /\ UNCHANGED <<out, exitCode>>
  /\ UNCHANGED <<command, refBranch, patterns, agentGiven, ttl, ttlGiven, outputFormat, response>>

\* The request gets its response (or none).
api_Response(r) ==
  /\ step = "awaiting"
  /\ response' = r
  /\ step' = "responded"
  /\ UNCHANGED <<command, refBranch, patterns, agentID, agentGiven, message, ttl, ttlGiven,
                 outputFormat, sent, out, exitCode>>

\* claim starting over after an error or a conflict.
claim_After_Retry(res) ==
  IF res.err # NilErr \/ res.resp.Type = "claim_conflict" THEN "start" ELSE "done"

\* Where claim goes after the response: it returns.
claim_After(res) == "done"

\* claim, from the response on: an error is returned; a conflict with a
\* list prints the list and returns an error; everything else is printed
\* as a success.
claim_Finish ==
  /\ command = "claim"
  /\ step = "responded"
  /\ LET res == Claim(response) IN
       /\ step' = claim_After(res)
       /\ IF res.err # NilErr THEN
            /\ out' = Append(out, ErrorLine(res.err))
            /\ exitCode' = 1
          ELSE IF res.resp.Type = "claim_conflict" /\ Len(res.resp.Conflicts) > 0 THEN
            /\ out' = out \o << Line("stderr", "conflict", "", <<>>, "Claim conflict detected!"),
                                Line("stdout", "conflicting", "", <<>>, "Conflicting claims:") >>
                          \o AllConflictLines(res.resp.Conflicts)
                          \o << ErrorLine(Err("conflict", 0, "cannot claim")) >>
            /\ exitCode' = 1
          ELSE
            /\ out' = out \o ClaimSuccessLines(res.resp)
            /\ exitCode' = 0
  /\ UNCHANGED <<command, refBranch, patterns, agentID, agentGiven, message, ttl, ttlGiven,
                 outputFormat, sent, response>>

\* release, up to the request: the same argument checks, and the agent id
\* is required.
release_Run(cfg) ==
  /\ command = "release"
  /\ step = "start"
  /\ IF patterns = <<>> THEN
       /\ Fail(Err("usage", 0, "requires at least 2 arg(s)"))
       /\ UNCHANGED sent
     ELSE IF refBranch = "" THEN
       /\ Fail(Err("usage", 0, "branch is required"))
       /\ UNCHANGED sent
     ELSE IF agentID = "" THEN
       /\ Fail(Err("usage", 0, "--agent-id is required"))
       /\ UNCHANGED sent
     ELSE IF cfg = "error" THEN
       /\ Fail(Err("config", 0, "not logged in"))
       /\ UNCHANGED sent
     ELSE
       /\ sent' = Append(sent, ReleaseRequest)
       /\ step' = "awaiting"
       /\ UNCHANGED <<out, exitCode>>
  /\ UNCHANGED <<command, refBranch, patterns, agentID, agentGiven, message, ttl, ttlGiven,
                 outputFormat, response>>

\* release, from the response on: an error is returned, otherwise the
\* release is reported.
release_Finish ==
  /\ command = "release"
  /\ step = "responded"
  /\ LET e == Release(response) IN
       IF e # NilErr THEN
         /\ out' = Append(out, ErrorLine(e))
         /\ exitCode' = 1
       ELSE
         /\ out' = Append(out, Line("stdout", "success", agentID, <<>>, "Released patterns as"))
         /\ exitCode' = 0
  /\ step' = "done"
  /\ UNCHANGED <<command, refBranch, patterns, agentID, agentGiven, message, ttl, ttlGiven,
                 outputFormat, sent, response>>

\* The command lines: the arguments and flags a caller can give.
InitCli ==
  /\ command \in {"claim", "release"}
  /\ step = "start"
  /\ refBranch \in {"", "main"}
  /\ patterns \in { <<>>, <<"*.go">>, <<"src/**", "*.ts">> }
  /\ agentGiven \in BOOLEAN
  /\ agentID = IF agentGiven THEN "w1" ELSE ""
  /\ message \in (IF command = "claim" THEN {"", "refactor"} ELSE {""})
  /\ ttlGiven \in (IF command = "claim" THEN BOOLEAN ELSE {FALSE})
  /\ ttl \in (IF ttlGiven THEN {0, -60, 600} ELSE IF command = "claim" THEN {DefaultTTL} ELSE {0})
  /\ outputFormat \in {"text", "json"}
  /\ sent = <<>>
  /\ response = NoResponse
  /\ out = <<>>
  /\ exitCode = -1

InitClaim ==
  InitStream /\ InitWatchIdle /\ InitTuiIdle /\ InitCli /\ InitCredIdle /\ InitWizIdle

NextClaim ==
  \/ UNCHANGED <<clientVars, watchVars, tuiVars, credVars, wizVars>> /\ \E id \in GeneratedIDs, cfg \in {"ok", "error"} : claim_Run(id, cfg)
  \/ UNCHANGED <<clientVars, watchVars, tuiVars, credVars, wizVars>> /\ \E r \in ClaimResponses : command = "claim" /\ api_Response(r)
  \/ UNCHANGED <<clientVars, watchVars, tuiVars, credVars, wizVars>> /\ \E r \in ReleaseResponses : command = "release" /\ api_Response(r)
  \/ UNCHANGED <<clientVars, watchVars, tuiVars, credVars, wizVars>> /\ claim_Finish
  \/ UNCHANGED <<clientVars, watchVars, tuiVars, credVars, wizVars>> /\ \E cfg \in {"ok", "error"} : release_Run(cfg)
  \/ UNCHANGED <<clientVars, watchVars, tuiVars, credVars, wizVars>> /\ release_Finish

SpecClaim == InitClaim /\ [][NextClaim]_vars

(***************************************************************************)
(* Claims about the coordination commands.                                  *)
(***************************************************************************)

\* The claim command has finished after a response.
ClaimAnswered == command = "claim" /\ step = "done" /\ response # NoResponse

\* The release command has finished after a response.
ReleaseAnswered == command = "release" /\ step = "done" /\ response # NoResponse

\* The output reports a claim as made.
SuccessReported == \E i \in 1..Len(out) : out[i].kind \in {"success", "json"}

\* The output names competitor c: its three lines, or an error text that
\* carries the whole response body.
CompetitorReported(c) ==
  \/ \E i \in 1..Len(out) :
       /\ i + 2 <= Len(out)
       /\ SubSeq(out, i, i + 2) = ConflictLines(c)
  \/ \E i \in 1..Len(out) :
       out[i].kind = "error" /\ out[i].text[3] = response.body.raw

\* C13 as stated: whenever the verdict of the server is a conflict, the
\* claim command reports every competing claim (agent identity, patterns,
\* description), never only the failure.
C13_ConflictReportsCompetitors ==
  (ClaimAnswered /\ response.body.type = "claim_conflict")
    => \A i \in 1..Len(response.body.conflicts) :
         CompetitorReported(response.body.conflicts[i])

\* C14 as stated: a response body of type claim_conflict is never reported
\* as granted (no success message, exit code 1), and exit code 0 occurs
\* only for a granted claim.
C14_ConflictNeverGranted ==
  /\ (ClaimAnswered /\ response.body.type = "claim_conflict")
       => (~SuccessReported /\ exitCode = 1)
  /\ (ClaimAnswered /\ exitCode = 0)
       => (response.body.type # "claim_conflict" /\ response.body.expires_at # "")

\* C15: a claim request is never retried: a request is sent only while
\* none has been sent and nothing has come back, so one invocation sends
\* at most one, and none after a conflict or an error.
C15_ClaimNeverRetried ==
  [][(command = "claim" /\ sent' # sent) => (sent = <<>> /\ response = NoResponse)]_vars

\* C15 witness: a claim that ended in a conflict after its one request.
C15_Witness ==
  /\ ClaimAnswered
  /\ response.body.type = "claim_conflict"
  /\ exitCode = 1
  /\ Len(sent) = 1

\* C16: without --agent-id one identifier is generated, sent as agent_id,
\* and after a successful claim every line of the output that names an
\* agent names that identifier, in text (success line and release hint)
\* and in JSON alike.
C16_GeneratedAgentEchoed ==
  (command = "claim" /\ ~agentGiven /\ sent # <<>>)
    => /\ sent[1].agent_id \in GeneratedIDs
       /\ \A i \in 1..Len(sent) : sent[i].agent_id = sent[1].agent_id
       /\ (step = "done" /\ exitCode = 0)
            => /\ \A i \in 1..Len(out) :
                    out[i].kind \in {"success", "json", "info"}
                      => out[i].agent = sent[1].agent_id
               /\ IF outputFormat = "json"
                    THEN \E i \in 1..Len(out) : out[i].kind = "json"
                    ELSE /\ \E i \in 1..Len(out) : out[i].kind = "success"
                         /\ \E i \in 1..Len(out) : out[i].kind = "info"

\* C16 witness: a granted claim without --agent-id, reported as JSON.
C16_Witness ==
  /\ ClaimAnswered
  /\ ~agentGiven
  /\ exitCode = 0
  /\ outputFormat = "json"
  /\ response.body = GrantedBody
  /\ out # <<>>

\* C17: release only forwards.  With arguments and configuration in order
\* the request carries the agent and the patterns as given, whoever holds
\* the claim; and when the server answers with an error the command exits
\* with 1, prints the status and the message of that error, and does not
\* report a release.
C17_ReleaseOnlyForwards ==
  command = "release"
    => /\ sent # <<>> =>
            sent = << [method |-> "DELETE", agent_id |-> agentID, patterns |-> patterns,
                       claim |-> "", ttl_seconds |-> 0] >>
       /\ (step = "done" /\ sent = <<>>) =>
            \E i \in 1..Len(out) : out[i].kind = "error" /\ out[i].text[1] \in {"usage", "config"}
       /\ (ReleaseAnswered /\ response.status >= 400) =>
            /\ exitCode = 1
            /\ ~SuccessReported
            /\ \E i \in 1..Len(out) :
                 /\ out[i].kind = "error"
                 /\ out[i].text[2] = response.status
                 /\ out[i].text[3] \in {response.body.message, response.body.error, response.body.raw}
                 /\ response.body.message # "" => out[i].text[3] = response.body.message

\* C17 witness: a release as agent w1 that the server refused with 404.
C17_Witness ==
  /\ ReleaseAnswered
  /\ response = [status |-> 404, body |-> MessageBody]
  /\ exitCode = 1
  /\ Len(sent) = 1

\* A response body that is neither a grant nor a conflict.
UnexpectedShape(b) == b.expires_at = "" /\ b.type # "claim_conflict"

\* C18 as stated: a response of unexpected shape (an empty body included)
\* is a hard failure of the request and is never reported as a claim made.
C18_UnexpectedShapeFails ==
  (ClaimAnswered /\ response.status >= 200 /\ response.status < 300
     /\ UnexpectedShape(response.body))
    => (exitCode = 1 /\ ~SuccessReported)

\* C19 as stated: every claim request sent has a non-empty pattern list and
\* a TTL greater than 0, the TTL being 300 when the caller gives none.
C19_ClaimRequestWellFormed ==
  \A i \in 1..Len(sent) :
    sent[i].method = "POST"
      => /\ sent[i].patterns # <<>>
         /\ sent[i].ttl_seconds > 0
         /\ ~ttlGiven => sent[i].ttl_seconds = 300

(***************************************************************************)
(* Claims about file_chunk events in the watch output.                      *)
(***************************************************************************)

\* The (agent, path) key of a file_chunk event.
ChunkKey(obj) ==
  CASE obj \in {"{file_chunk,a1,f.py,1}", "{file_chunk,a1,f.py,2}"} -> <<"a1", "f.py">>
    [] obj = "{file_chunk,a2,f.py,1}" -> <<"a2", "f.py">>
    [] OTHER -> <<>>

\* The cursor version of a file_chunk event.
ChunkVersion(obj) ==
  CASE obj = "{file_chunk,a1,f.py,2}" -> 2
    [] obj \in ChunkObjects -> 1
    [] OTHER -> 0

\* Entry i of the live output is a line of its own printed for a chunk
\* event (every entry of the output is a line of its own, ended by a
\* newline).
IsChunkLine(i) ==
  /\ LiveOut[i].type = "file_chunk"
  /\ LiveOut[i].of # <<>>

\* C20 as stated: the chunk events of one (agent, path) key with increasing
\* version give one line, begun by the first event and updated in place by
\* the later ones, not a line for each event, whatever arrives in between
\* for another key.
C20_ChunksShareOneLine ==
  \A i, j \in 1..Len(LiveOut) :
    (/\ i < j
     /\ IsChunkLine(i)
     /\ IsChunkLine(j)
     /\ ChunkKey(LiveOut[i].of[1]) = ChunkKey(LiveOut[j].of[1]))
      => ChunkVersion(LiveOut[i].of[1]) >= ChunkVersion(LiveOut[j].of[1])

(***************************************************************************)
(* The credential store: one JSON file that maps a host to a credential.   *)
(* Every call reads the whole file and the two that change something       *)
(* write the whole file.  The calls are made one after the other, and the  *)
(* configuration directory can be read and written.                        *)
(***************************************************************************)

\* The hosts a caller names: "" stands for the default host.
CallHosts == {"", DefaultHost, OtherHost}

\* GetHost: the default host of the configuration.
GetHost == DefaultHost

\* The hosts in the order of their names.
HostOrder == <<DefaultHost, OtherHost>>

\* The credentials a caller sets.
Credential1 ==
  [APIKey |-> <<"k", "<", "1">>, UserID |-> <<"u", "1">>, Username |-> <<"a", "&", "b">>]

Credential2 ==
  [APIKey |-> <<"k", "2">>, UserID |-> <<>>, Username |-> <<"\\", "c">>]

CallCredentials == {Credential1, Credential2, ZeroCredential}

\* encoding/json, a character of a string as it is written: <, > and & as
\* \u escapes, the backslash and the quote with a backslash.
EscapeChar(c) ==
  CASE c = "<" -> "\\u003c"
    [] c = ">" -> "\\u003e"
    [] c = "&" -> "\\u0026"
    [] c = "\\" -> "\\\\"
    [] c = "\"" -> "\\\""
    [] OTHER -> c

Escape(str) == [i \in 1..Len(str) |-> EscapeChar(str[i])]

\* encoding/json, a written character as it is read.
UnescapeChar(c) ==
  CASE c = "\\u003c" -> "<"
    [] c = "\\u003e" -> ">"
    [] c = "\\u0026" -> "&"
    [] c = "\\\\" -> "\\"
    [] c = "\\\"" -> "\""
    [] OTHER -> c

Unescape(str) == [i \in 1..Len(str) |-> UnescapeChar(str[i])]

\* make(Credentials).
EmptyCredentials == [h \in {} |-> ZeroCredential]

\* json.MarshalIndent of a Credentials map and os.WriteFile: one entry for
\* each host, in the order of the host names.
MarshalCredentials(creds) ==
  LET hosts == SelectSeq(HostOrder, LAMBDA h : h \in DOMAIN creds)
  IN [state |-> "json",
      entries |-> [i \in 1..Len(hosts) |->
                     [host |-> hosts[i],
                      api_key |-> Escape(creds[hosts[i]].APIKey),
                      user_id |-> Escape(creds[hosts[i]].UserID),
                      username |-> Escape(creds[hosts[i]].Username)]]]

\* json.Unmarshal of the file's entries into a Credentials map.
UnmarshalCredentials(entries) ==
  [h \in {entries[i].host : i \in 1..Len(entries)} |->
     LET e == entries[CHOOSE i \in 1..Len(entries) : entries[i].host = h]
     IN [APIKey |-> Unescape(e.api_key), UserID |-> Unescape(e.user_id),
         Username |-> Unescape(e.username)]]

\* LoadCredentials: an empty map when there is no file, an error when the
\* file is not JSON, else the decoded map.
LoadCredentials(f) ==
  CASE f.state = "missing" -> [creds |-> EmptyCredentials, err |-> FALSE]
    [] f.state = "json" -> [creds |-> UnmarshalCredentials(f.entries), err |-> FALSE]
    [] OTHER -> [creds |-> EmptyCredentials, err |-> TRUE]

\* The host a call is for.
HostOf(h) == IF h = "" THEN GetHost ELSE h

\* GetCredential: nil and the error when the file cannot be loaded, nil
\* when the host has no entry, else the entry.
GetCredential(f, h) ==
  LET l == LoadCredentials(f) IN
  IF l.err THEN [found |-> FALSE, cred |-> ZeroCredential, err |-> TRUE]
  ELSE IF HostOf(h) \in DOMAIN l.creds
    THEN [found |-> TRUE, cred |-> l.creds[HostOf(h)], err |-> FALSE]
  ELSE [found |-> FALSE, cred |-> ZeroCredential, err |-> FALSE]

\* SetCredential writing a file with the one host only.
SetCredential_Fresh(f, h, c) ==
  MarshalCredentials([x \in {HostOf(h)} |-> c])

\* SetCredential, the file it writes: the loaded map (an empty one when the
\* file cannot be loaded) with the entry of the host replaced.
SetCredential(f, h, c) ==
  LET l == LoadCredentials(f)
      creds == IF l.err THEN EmptyCredentials ELSE l.creds
  IN MarshalCredentials([x \in DOMAIN creds \cup {HostOf(h)} |->
                           IF x = HostOf(h) THEN c ELSE creds[x]])

\* RemoveCredential: the error when the file cannot be loaded, and nothing
\* is written; else the file written is the loaded map without the host.
RemoveCredential(f, h) ==
  LET l == LoadCredentials(f) IN
  IF l.err THEN [file |-> f, err |-> TRUE]
  ELSE [file |-> MarshalCredentials([x \in DOMAIN l.creds \ {HostOf(h)} |-> l.creds[x]]),
        err |-> FALSE]

\* A call of SetCredential.
cred_Set(h, c) ==
  /\ credCalls < MaxCalls
  /\ credFile' = SetCredential(credFile, h, c)
  /\ lastSet' = [lastSet EXCEPT ![HostOf(h)] = [found |-> TRUE, cred |-> c]]
  /\ lastCall' = [op |-> "set", host |-> HostOf(h)]
  /\ credCalls' = credCalls + 1
  /\ UNCHANGED got

\* A call of RemoveCredential.
cred_Remove(h) ==
  /\ credCalls < MaxCalls
  /\ credFile' = RemoveCredential(credFile, h).file
  /\ lastSet' = IF RemoveCredential(credFile, h).err THEN lastSet
                ELSE [lastSet EXCEPT ![HostOf(h)] = NoCredential]
  /\ lastCall' = [op |-> "remove", host |-> HostOf(h)]
  /\ credCalls' = credCalls + 1
  /\ UNCHANGED got

\* A call of GetCredential.
cred_Get(h) ==
  /\ credCalls < MaxCalls
  /\ got' = [called |-> TRUE, host |-> HostOf(h),
             found |-> GetCredential(credFile, h).found,
             cred |-> GetCredential(credFile, h).cred,
             err |-> GetCredential(credFile, h).err]
  /\ lastCall' = [op |-> "get", host |-> HostOf(h)]
  /\ credCalls' = credCalls + 1
  /\ UNCHANGED <<credFile, lastSet>>

\* The file before the first call: none, one that is not JSON, or one
\* written by an earlier set for the other host.
InitCreds ==
  /\ InitStream
  /\ InitWatchIdle
  /\ InitTuiIdle
  /\ InitCliIdle
  /\ InitWizIdle
  /\ \/ /\ credFile = MissingFile
        /\ lastSet = [h \in StoredHosts |-> NoCredential]
     \/ /\ credFile = [state |-> "garbage", entries |-> <<>>]
        /\ lastSet = [h \in StoredHosts |-> NoCredential]
     \/ /\ credFile = SetCredential(MissingFile, OtherHost, Credential2)
        /\ lastSet = [h \in StoredHosts |->
                        IF h = OtherHost THEN [found |-> TRUE, cred |-> Credential2]
                        ELSE NoCredential]
  /\ got = NotCalled
  /\ lastCall = [op |-> "none", host |-> ""]
  /\ credCalls = 0

NextCreds ==
  \/ UNCHANGED <<clientVars, watchVars, tuiVars, cliVars, wizVars>> /\ \E h \in CallHosts, c \in CallCredentials : cred_Set(h, c)
  \/ UNCHANGED <<clientVars, watchVars, tuiVars, cliVars, wizVars>> /\ \E h \in CallHosts : cred_Remove(h)
  \/ UNCHANGED <<clientVars, watchVars, tuiVars, cliVars, wizVars>> /\ \E h \in CallHosts : cred_Get(h)

SpecCreds == InitCreds /\ [][NextCreds]_vars

\* What the store holds for a host.
Stored(f, h) ==
  [found |-> GetCredential(f, h).found, cred |-> GetCredential(f, h).cred]

\* C25: after any sequence of set and remove calls GetCredential gives, for
\* every host, the credential set last for it if it was not removed since
\* and nil otherwise ("" being the default host); and a set or a remove
\* for one host leaves what is stored for every other host as it was.
C25_StoreIsPerHost ==
  /\ [](\A h \in CallHosts : Stored(credFile, h) = lastSet[HostOf(h)])
  /\ [][got' # got
         => (got'.found = lastSet[got'.host].found /\ got'.cred = lastSet[got'.host].cred)]_vars
  /\ [][credCalls' # credCalls
         => \A h \in StoredHosts \ {lastCall'.host} :
              Stored(credFile', h) = Stored(credFile, h)]_vars

\* C25 witness: two hosts were set and the default host removed again; the
\* other host still has its credential and the default host has none.
C25_Witness_SetSetRemove ==
  /\ credCalls = 3
  /\ lastCall = [op |-> "remove", host |-> DefaultHost]
  /\ Len(credFile.entries) = 1
  /\ credFile.entries[1].api_key # Credential1.APIKey
  /\ Stored(credFile, OtherHost) = [found |-> TRUE, cred |-> Credential1]
  /\ ~Stored(credFile, "").found

(***************************************************************************)
(* The multi-step wizard, made of text input steps.  The steps are         *)
(* pointers held by the wizard, so what a step has stored stays with it    *)
(* when the wizard moves to another step.                                   *)
(***************************************************************************)

\* The keys a user presses: a character, enter, esc and ctrl+c.
WizKeys == {"a", "enter", "esc", "ctrl+c"}

\* Messages that are no key presses: the window size, and the blink of the
\* cursor that each step's Init asks for.
WizOther == {"window", "blink"}

\* textinput.Model.Update: a character key is appended to the value.
input_Update(v, msg) == IF msg = "a" THEN Append(v, "a") ELSE v

\* TextInputStep.Update, the complete flag: enter on a value that is not
\* empty sets it, and nothing clears it.
step_Complete(was, v, msg) == was \/ (msg = "enter" /\ v # <<>>)

\* WizardModel.Update.  ctrl+c cancels; esc goes a step back, or cancels on
\* the first step; every other message (the window size included) is
\* given to the current step, and when that step says it is complete the
\* wizard moves on, or is done after the last step.
wiz_Update(msg) ==
  /\ ~wizDone
  /\ Len(wizMsgs) < MaxMsgs
  /\ wizMsgs' = Append(wizMsgs, msg)
  /\ wentBack' = IF msg = "esc" /\ currentStep > 0 THEN TRUE
                 ELSE IF msg = "enter" THEN FALSE
                 ELSE wentBack
  /\ IF msg = "ctrl+c" \/ (msg = "esc" /\ currentStep = 0) THEN
       /\ cancelled' = TRUE
       /\ wizDone' = TRUE
       /\ UNCHANGED <<currentStep, stepInput, stepComplete, stepValue>>
     ELSE IF msg = "esc" THEN
       /\ currentStep' = currentStep - 1
       /\ UNCHANGED <<wizDone, cancelled, stepInput, stepComplete, stepValue>>
     ELSE
       /\ IF msg = "enter" /\ stepInput[currentStep] # <<>>
            THEN /\ stepValue' = [stepValue EXCEPT ![currentStep] = stepInput[currentStep]]
                 /\ UNCHANGED stepInput
            ELSE /\ stepInput' = [stepInput EXCEPT
                                    ![currentStep] = input_Update(stepInput[currentStep], msg)]
                 /\ UNCHANGED stepValue
       /\ stepComplete' = [stepComplete EXCEPT
                             ![currentStep] = step_Complete(stepComplete[currentStep],
                                                            stepInput[currentStep], msg)]
       /\ IF stepComplete'[currentStep]
            THEN IF currentStep < WizardSteps - 1
                   THEN currentStep' = currentStep + 1 /\ UNCHANGED wizDone
                   ELSE wizDone' = TRUE /\ UNCHANGED currentStep
            ELSE UNCHANGED <<currentStep, wizDone>>
       /\ UNCHANGED cancelled

InitWizard ==
  /\ InitStream
  /\ InitWatchIdle
  /\ InitTuiIdle
  /\ InitCliIdle
  /\ InitCredIdle
  /\ InitWizIdle

NextWizard ==
  \/ UNCHANGED <<clientVars, watchVars, tuiVars, cliVars, credVars>> /\ \E k \in WizKeys : wiz_Update(k)
  \/ UNCHANGED <<clientVars, watchVars, tuiVars, cliVars, credVars>> /\ \E o \in WizOther : wiz_Update(o)

SpecWizard == InitWizard /\ [][NextWizard]_vars

\* The message Update has just handled.
Handled(msg) == wizMsgs' # wizMsgs /\ wizMsgs'[Len(wizMsgs')] = msg

\* C30 as stated: esc on a step after the first moves the wizard one step
\* back, and the wizard stays there through every message that is no key
\* press until the user confirms that step again; esc on the first step
\* cancels the wizard.
C30_EscGoesBackAndStays ==
  /\ [][(Handled("esc") /\ currentStep > 0) => currentStep' = currentStep - 1]_vars
  /\ [][(Handled("esc") /\ currentStep = 0) => (cancelled' /\ wizDone')]_vars
  /\ [][(wentBack /\ \E o \in WizOther : Handled(o)) => currentStep' = currentStep]_vars

====
